---- MODULE Spec2Model ----
(***************************************************************************)
(* A model of the ledger core of tally (src-tauri/src/commands and          *)
(* src-tauri/src/import): the import reconciler, the category rule engine, *)
(* the transfer matcher, the transfer link operations, the recurring       *)
(* series detector and the three file parsers, over the accounts /         *)
(* transactions / category_rules tables and the files they read and write. *)
(*                                                                         *)
(* Conventions.  An Option<T> is a sequence of length 0 (None / SQL NULL)  *)
(* or 1 (Some).  A text value is a sequence of one-character strings, so   *)
(* that lowercasing, substring search and prefix tests are computed.  A    *)
(* date is a day number (ISO dates order as their day numbers do).  A      *)
(* transaction id is the row's position in the transactions table; batch   *)
(* ids and transfer ids (Uuid::new_v4) are ids that no row carries.  An    *)
(* amount is an i64, kept at the width AmountBits where it is negated.  A  *)
(* confidence is an f64, kept in millionths with the sign of its rounding  *)
(* error.  Every command flips `tick` and records its arguments and what   *)
(* it returned in `last`.  `document` is the file a parser command reads;  *)
(* `database` is the Database of db/connection.rs: whether it holds a      *)
(* connection, and the key of the file at its path (None: no file);        *)
(* `mutex` is the holder of the Mutex<Database> that lib.rs manages and    *)
(* `calls` the commands in flight, where commands are interleaved; a       *)
(* command taken as one step runs from its lock() to its return.           *)
(*                                                                         *)
(* The specifications share the variables: Spec (accounts, import,         *)
(* delete), SpecRules (rule application over drawn rule tables and         *)
(* ledgers), SpecTransfers (the matcher over drawn ledgers), SpecLink      *)
(* (link and unlink), SpecRecurring (the detector over drawn ledgers),     *)
(* SpecFiles (the parsers over drawn files), SpecAccounts (imports and     *)
(* creations around the deletion of an account), SpecConcurrent (commands  *)
(* interleaved around the mutex), SpecBalance (creations, updates,         *)
(* deletions and imports over accounts opened at 0) and SpecLocked (the    *)
(* commands around unlock, reload_config and delete_database).             *)
(***************************************************************************)
EXTENDS Integers, Sequences, FiniteSets, TLC

VARIABLES accounts, transactions, rules, redeleted, last, tick,
          document, database, mutex, calls

vars == <<accounts, transactions, rules, redeleted, last, tick, document, database, mutex,
          calls>>

-----------------------------------------------------------------------------
(* Bounds of the model *)

MaxTx == 2
MaxBatch == 2
MaxRedelete == 0

\* The most commands in flight in the concurrent specification
MaxCalls == 2

\* The width, in bits, at which the model keeps an i64 amount
AmountBits == 14

\* The day number of the day the matcher runs
Today == 100

\* The most rows of one sign in the block of opposite amounts of a ledger
MaxBlock == 5

\* The most rows of one sign in the block of a ledger that has other rows too
MaxOddBlock == 2

-----------------------------------------------------------------------------
(* Option and text helpers *)

None == <<>>

Some(x) == <<x>>

IsSome(o) == Len(o) = 1

RECURSIVE SumSeq(_)
SumSeq(s) == IF s = <<>> THEN 0 ELSE s[1] + SumSeq(Tail(s))

Range(s) == { s[i] : i \in 1..Len(s) }

\* char::to_lowercase on the letters used by the model
Lower(c) == CASE c = "A" -> "a"
              [] c = "B" -> "b"
              [] c = "F" -> "f"
              [] c = "Z" -> "z"
              [] OTHER -> c

\* str::to_lowercase
ToLowercase(s) == [i \in 1..Len(s) |-> Lower(s[i])]

\* The characters of the model's texts that UTF-8 encodes in two bytes
TwoByteChars == {"é"}

\* str::len: the length in bytes
ByteLen(s) == Len(s) + Cardinality({ i \in 1..Len(s) : s[i] \in TwoByteChars })

\* str::contains
Contains(hay, needle) ==
    \E i \in 0..(Len(hay) - Len(needle)) : SubSeq(hay, i + 1, i + Len(needle)) = needle

\* str::starts_with
StartsWith(hay, needle) ==
    Len(needle) <= Len(hay) /\ SubSeq(hay, 1, Len(needle)) = needle

-----------------------------------------------------------------------------
(* The tables *)

AccountIds == {"a1", "a2"}

\* An account id no create_account ever returned
UnknownAccount == "a9"

\* categories: rows of the seeded categories table (id, name)
Categories == { [id |-> "c1", name |-> <<"F", "o">>],
                [id |-> "c2", name |-> <<"r">>] }

CategoryIds == { c.id : c \in Categories }

NoAccount == [exists |-> FALSE, deleted |-> FALSE, current_balance |-> 0]

\* A row of the transactions table
Row(account_id, date, amount, payee, category_id, batch) ==
    [account_id |-> account_id, date |-> date, amount |-> amount, payee |-> payee,
     category_id |-> category_id, transfer_id |-> None, transfer_account_id |-> None,
     deleted |-> FALSE, import_batch_id |-> batch]

TxIds(txs) == 1..Len(txs)

\* Uuid::new_v4(): an id that no row carries (the ids being opaque, the
\* least positive number not in `used`, a set of Option ids)
NewUuid(used) == CHOOSE n \in 1..(Cardinality(used) + 1) :
                    /\ Some(n) \notin used
                    /\ \A m \in 1..(n - 1) : Some(m) \in used

\* WHERE account_id = ?1 AND deleted_at IS NULL
LiveRowsOf(txs, account_id) ==
    { i \in TxIds(txs) : txs[i].account_id = account_id /\ ~txs[i].deleted }

\* Referential integrity of the schema (migrations/001_initial_schema.sql):
\* an insert is rejected unless its account row and its category row exist.
StorageAcceptsInsert(accts, account_id, category_id) ==
    /\ account_id \in AccountIds
    /\ accts[account_id].exists
    /\ (IsSome(category_id) => category_id[1] \in CategoryIds)

-----------------------------------------------------------------------------
(* Category rule engine: rules.rs apply_category_rules and its twin        *)
(* import.rs apply_category_rules_internal                                 *)

\* category_rules row
Rule(category_id, rule_type, pattern, amount_min, amount_max, account_id, priority, is_active) ==
    [category_id |-> category_id, rule_type |-> rule_type, pattern |-> pattern,
     amount_min |-> amount_min, amount_max |-> amount_max, account_id |-> account_id,
     priority |-> priority, is_active |-> is_active]

\* WHERE is_active = 1
ActiveRules(rs) == { i \in 1..Len(rs) : rs[i].is_active }

\* ORDER BY priority DESC: every order of the active rules the query may
\* return (rules of equal priority come in an order SQL leaves open)
RuleOrders(rs) ==
    LET act == ActiveRules(rs)
        n == Cardinality(act)
    IN { p \in [1..n -> act] :
           /\ \A i, j \in 1..n : i # j => p[i] # p[j]
           /\ \A i, j \in 1..n : i < j => rs[p[i]].priority >= rs[p[j]].priority }

\* regex::Regex::new(pattern) on the model's alphabet: letters are literals,
\* an unclosed "(" is a compile error
RegexCompiles(pattern) == "(" \notin Range(pattern)

\* Regex::is_match of a pattern of literal letters: unanchored, case-sensitive
RegexIsMatch(pattern, text) == Contains(text, pattern)

\* match rule_type.as_str() { ... }
PatternMatches(rule_type, pattern, payee) ==
    /\ IsSome(payee)
    /\ CASE rule_type = "payee_contains" ->
              Contains(ToLowercase(payee[1]), ToLowercase(pattern))
         [] rule_type = "payee_exact" ->
              ToLowercase(payee[1]) = ToLowercase(pattern)
         [] rule_type = "payee_starts_with" ->
              StartsWith(ToLowercase(payee[1]), ToLowercase(pattern))
         [] rule_type = "payee_regex" ->
              RegexCompiles(pattern) /\ RegexIsMatch(pattern, payee[1])
         [] OTHER -> FALSE

\* The checks of the inner loop body that `continue` past a rule
AccountFilterOk(rule, tx) ==
    IsSome(rule.account_id) => rule.account_id[1] = tx.account_id

\* Variant: the bounds taken as exclusive
AmountInRangeExclusive(rule, tx) ==
    /\ (IsSome(rule.amount_min) => tx.amount > rule.amount_min[1])
    /\ (IsSome(rule.amount_max) => tx.amount < rule.amount_max[1])

\* if tx_amount < *min { continue }  if tx_amount > *max { continue }
AmountInRange(rule, tx) ==
    /\ (IsSome(rule.amount_min) => ~(tx.amount < rule.amount_min[1]))
    /\ (IsSome(rule.amount_max) => ~(tx.amount > rule.amount_max[1]))

RuleQualifies(rule, tx) ==
    /\ AccountFilterOk(rule, tx)
    /\ AmountInRange(rule, tx)
    /\ PatternMatches(rule.rule_type, rule.pattern, tx.payee)

\* for rule in &rules { ... if matches { ...; break } }: the category of the
\* first rule of `order` that matches, if any
RECURSIVE FirstMatch(_, _, _)
FirstMatch(order, rs, tx) ==
    IF order = <<>> THEN None
    ELSE IF RuleQualifies(rs[Head(order)], tx) THEN Some(rs[Head(order)].category_id)
    ELSE FirstMatch(Tail(order), rs, tx)

\* Whether id is among the given ids (id IN (...)), or the scope is all rows
InScope(ids, i) == IsSome(ids) => i \in Range(ids[1])

\* rules.rs:202-215, the command's query
CommandCandidates(txs, ids) ==
    IF IsSome(ids)
    THEN { i \in TxIds(txs) : i \in Range(ids[1]) /\ ~txs[i].deleted }
    ELSE { i \in TxIds(txs) : txs[i].category_id = None /\ ~txs[i].deleted }

\* import.rs:165-178, the internal twin's query
InternalCandidates(txs, ids) ==
    { i \in TxIds(txs) : InScope(ids, i) /\ txs[i].category_id = None /\ ~txs[i].deleted }

\* The rule pass over the candidate rows, rules taken in `order`
RulePass(txs, rs, order, cand) ==
    LET hit(i) == FirstMatch(order, rs, txs[i])
        matched == { i \in cand : IsSome(hit(i)) }
    IN [txs |-> [i \in TxIds(txs) |->
                    IF i \in matched THEN [txs[i] EXCEPT !.category_id = hit(i)]
                    ELSE txs[i]],
        count |-> Cardinality(matched)]

\* import.rs:280-293: the rows the second pass walks
LearningCandidates(txs, ids) ==
    { i \in TxIds(txs) : /\ InScope(ids, i)
                         /\ txs[i].category_id = None
                         /\ IsSome(txs[i].payee)
                         /\ ~txs[i].deleted }

\* import.rs:317-320: WHERE payee = ?1 AND category_id IS NOT NULL AND
\* deleted_at IS NULL AND id != ?2 ORDER BY date DESC LIMIT 1 (rows of the
\* latest date; which of several SQL leaves open)
MostRecentDonors(txs, id) ==
    LET donors == { d \in TxIds(txs) : /\ txs[d].payee = txs[id].payee
                                       /\ IsSome(txs[d].category_id)
                                       /\ ~txs[d].deleted
                                       /\ d # id }
    IN { d \in donors : \A e \in donors : txs[d].date >= txs[e].date }

\* import.rs:314-333: every outcome of the learning loop over `todo`
RECURSIVE LearningPass(_, _, _)
LearningPass(txs, todo, count) ==
    IF todo = <<>> THEN { [txs |-> txs, count |-> count] }
    ELSE LET id == Head(todo)
             donors == MostRecentDonors(txs, id)
         IN IF donors = {} THEN LearningPass(txs, Tail(todo), count)
            ELSE UNION { LearningPass([txs EXCEPT ![id].category_id = txs[d].category_id],
                                      Tail(todo), count + 1) : d \in donors }

\* Ascending sequence of a set of row ids
RECURSIVE SortedIds(_)
SortedIds(S) == IF S = {} THEN <<>>
                ELSE LET m == CHOOSE x \in S : \A y \in S : x <= y
                     IN <<m>> \o SortedIds(S \ {m})

\* Every order of the rows S a query without ORDER BY may return
RECURSIVE AnyOrders(_)
AnyOrders(S) ==
    IF S = {} THEN { <<>> }
    ELSE UNION { { <<i>> \o rest : rest \in AnyOrders(S \ {i}) } : i \in S }

\* import.rs apply_category_rules_internal: the set of outcomes [txs, count]
ApplyCategoryRulesInternal(txs, rs, ids) ==
    IF ActiveRules(rs) = {} THEN { [txs |-> txs, count |-> 0] }
    ELSE IF IsSome(ids) /\ ids[1] = <<>> THEN { [txs |-> txs, count |-> 0] }
    ELSE UNION { LET r1 == RulePass(txs, rs, order, InternalCandidates(txs, ids))
                 IN UNION { LearningPass(r1.txs, todo, r1.count) :
                              todo \in AnyOrders(LearningCandidates(r1.txs, ids)) }
                 : order \in RuleOrders(rs) }

\* rules.rs apply_category_rules: the set of outcomes [txs, count]
ApplyCategoryRulesCommand(txs, rs, ids) ==
    IF ActiveRules(rs) = {} THEN { [txs |-> txs, count |-> 0] }
    ELSE IF IsSome(ids) /\ ids[1] = <<>> THEN { [txs |-> txs, count |-> 0] }
    ELSE { RulePass(txs, rs, order, CommandCandidates(txs, ids)) : order \in RuleOrders(rs) }

-----------------------------------------------------------------------------
(* Import reconciler: import.rs import_transactions                        *)

\* One element of the `transactions` argument (the JSON fields the loop reads)
Parsed(date, amount, payee, categoryId, pdfCategory) ==
    [date |-> date, amount |-> amount, payee |-> payee,
     categoryId |-> categoryId, pdfCategory |-> pdfCategory]

\* import.rs:43-57 and 64-75: categoryId, else the category whose lowercased
\* name is the lowercased pdfCategory, else none
ResolveCategory(tx) ==
    IF IsSome(tx.categoryId) THEN tx.categoryId
    ELSE IF IsSome(tx.pdfCategory)
         /\ \E c \in Categories : ToLowercase(c.name) = ToLowercase(tx.pdfCategory[1])
    THEN Some((CHOOSE c \in Categories :
                 ToLowercase(c.name) = ToLowercase(tx.pdfCategory[1])).id)
    ELSE None

\* Variant: the payee compared with `payee = ?4` alone, which no NULL satisfies
IsDuplicatePayeeEq(row, account_id, tx) ==
    /\ row.account_id = account_id
    /\ row.date = tx.date
    /\ row.amount = tx.amount
    /\ IsSome(row.payee) /\ IsSome(tx.payee) /\ row.payee[1] = tx.payee[1]
    /\ ~row.deleted

\* import.rs:78-88: account_id = ?1 AND date = ?2 AND amount = ?3 AND
\* (payee = ?4 OR (payee IS NULL AND ?4 IS NULL)) AND deleted_at IS NULL
IsDuplicate(row, account_id, tx) ==
    /\ row.account_id = account_id
    /\ row.date = tx.date
    /\ row.amount = tx.amount
    /\ ((IsSome(row.payee) /\ IsSome(tx.payee) /\ row.payee[1] = tx.payee[1])
        \/ (row.payee = None /\ tx.payee = None))
    /\ ~row.deleted

\* Variant: the loop that passes a duplicate without counting it
RECURSIVE ImportLoopOfUncountedSkips(_, _, _, _, _, _)
ImportLoopOfUncountedSkips(txs, accts, account_id, batch, batch_id, acc) ==
    IF batch = <<>> THEN [ok |-> TRUE, txs |-> txs, imported |-> acc.imported,
                          skipped |-> acc.skipped, ids |-> acc.ids]
    ELSE LET tx == Head(batch)
             category_id == ResolveCategory(tx)
         IN IF \E i \in TxIds(txs) : IsDuplicate(txs[i], account_id, tx)
            THEN ImportLoopOfUncountedSkips(txs, accts, account_id, Tail(batch), batch_id, acc)
            ELSE IF ~StorageAcceptsInsert(accts, account_id, category_id)
            THEN [ok |-> FALSE, txs |-> txs, imported |-> acc.imported,
                  skipped |-> acc.skipped, ids |-> acc.ids]
            ELSE ImportLoopOfUncountedSkips(
                     Append(txs, Row(account_id, tx.date, tx.amount, tx.payee,
                                     category_id, Some(batch_id))),
                     accts, account_id, Tail(batch), batch_id,
                     [acc EXCEPT !.imported = @ + 1, !.ids = Append(@, Len(txs) + 1)])

\* import.rs:59-115, the loop: `ok` is FALSE when an INSERT failed and the
\* `?` returned early (rows inserted before it stay: each statement commits)
RECURSIVE ImportLoop(_, _, _, _, _, _)
ImportLoop(txs, accts, account_id, batch, batch_id, acc) ==
    IF batch = <<>> THEN [ok |-> TRUE, txs |-> txs, imported |-> acc.imported,
                          skipped |-> acc.skipped, ids |-> acc.ids]
    ELSE LET tx == Head(batch)
             category_id == ResolveCategory(tx)
         IN IF \E i \in TxIds(txs) : IsDuplicate(txs[i], account_id, tx)
            THEN ImportLoop(txs, accts, account_id, Tail(batch), batch_id,
                            [acc EXCEPT !.skipped = @ + 1])
            ELSE IF ~StorageAcceptsInsert(accts, account_id, category_id)
            THEN [ok |-> FALSE, txs |-> txs, imported |-> acc.imported,
                  skipped |-> acc.skipped, ids |-> acc.ids]
            ELSE ImportLoop(Append(txs, Row(account_id, tx.date, tx.amount, tx.payee,
                                            category_id, Some(batch_id))),
                            accts, account_id, Tail(batch), batch_id,
                            [acc EXCEPT !.imported = @ + 1,
                                        !.ids = Append(@, Len(txs) + 1)])

\* Variant: the sum taken without `deleted_at IS NULL`
BalanceOfAllRows(txs, account_id) ==
    SumSeq([k \in 1..Len(txs) |-> IF txs[k].account_id = account_id THEN txs[k].amount ELSE 0])

\* import.rs:339-344: SELECT COALESCE(SUM(amount), 0) ... WHERE account_id = ?1
\* AND deleted_at IS NULL
BalanceOf(txs, account_id) ==
    SumSeq([k \in 1..Len(SortedIds(LiveRowsOf(txs, account_id))) |->
               txs[SortedIds(LiveRowsOf(txs, account_id))[k]].amount])

\* SELECT current_balance FROM accounts WHERE id = ?1, if there is such a row
CurrentBalance(accts, account_id) ==
    IF account_id \in AccountIds /\ accts[account_id].exists
    THEN Some(accts[account_id].current_balance) ELSE None

\* import.rs:338-352 update_account_balance
UpdateAccountBalance(accts, txs, account_id) ==
    IF account_id \in AccountIds /\ accts[account_id].exists
    THEN [accts EXCEPT ![account_id].current_balance = BalanceOf(txs, account_id)]
    ELSE accts

-----------------------------------------------------------------------------
(* Transfer matcher: transactions.rs detect_transfers                      *)

\* take(20)
MaxCandidates == 20

\* if days_diff > 5 { continue }
MaxDaysDiff == 5

\* date('now', '-90 days')
WindowDays == 90

\* i64::MIN at the width of the model
I64Min == -(2 ^ (AmountBits - 1))

\* -x on an i64 in a build without overflow checks
WrappingNeg(x) == IF x = I64Min THEN I64Min ELSE -x

\* A date text that is no %Y-%m-%d date (it sorts after every date)
UnparseableDate == 9999

\* chrono::NaiveDate::parse_from_str(date, "%Y-%m-%d")
ParseDate(date) == IF date = UnparseableDate THEN None ELSE Some(date)

\* (a - b).num_days().abs()
DaysDiff(a, b) == IF a >= b THEN a - b ELSE b - a

TransferKeywords == { <<"t", "r", "a", "n", "s", "f", "e", "r">>,
                      <<"x", "f", "e", "r">>,
                      <<"p", "a", "y", "m", "e", "n", "t">>,
                      <<"a", "c", "h">>,
                      <<"w", "i", "r", "e">>,
                      <<"z", "e", "l", "l", "e">>,
                      <<"v", "e", "n", "m", "o">> }

\* transfer_keywords.iter().any(|k| lower.contains(k))
HasKeyword(text) == \E k \in TransferKeywords : Contains(ToLowercase(text), k)

\* Variant: the payees not looked at
PayeeSimilarityOfNone(payee_a, payee_b) == 3

\* transactions.rs calculate_payee_similarity, in tenths
CalculatePayeeSimilarity(payee_a, payee_b) ==
    IF IsSome(payee_a) /\ IsSome(payee_b)
    THEN LET a_has == HasKeyword(payee_a[1])
             b_has == HasKeyword(payee_b[1])
         IN IF a_has /\ b_has THEN 8 ELSE IF a_has \/ b_has THEN 5 ELSE 3
    ELSE 3

\* What the f64 evaluation of (1.0 - days_diff / 5.0) * 0.6 + payee_score * 0.4
\* is off the exact value, in the sign of the error (0.6799999999999999 for
\* 0.68, 0.44000000000000006 for 0.44, 0.31999999999999995 for 0.32,
\* 0.23999999999999996 for 0.24, 0.32000000000000006 for 0.32)
F64Rounding(days_diff, payee_score) ==
    CASE days_diff = 1 /\ payee_score = 5 -> -1
      [] days_diff = 4 /\ payee_score = 8 -> 1
      [] days_diff = 4 /\ payee_score = 5 -> -1
      [] days_diff = 4 /\ payee_score = 3 -> -1
      [] days_diff = 5 /\ payee_score = 8 -> 1
      [] OTHER -> 0

\* date_score * 0.6 + payee_score * 0.4 in millionths, the f64 error kept as
\* one unit so that two confidences compare as the f64 values do
Confidence(days_diff, payee_score) ==
    (MaxDaysDiff - days_diff) * 120000 + payee_score * 40000
        + F64Rounding(days_diff, payee_score)

\* WHERE deleted_at IS NULL AND transfer_id IS NULL AND date >= date('now', '-90 days')
UnlinkedRecent(txs) ==
    { i \in TxIds(txs) : /\ ~txs[i].deleted
                         /\ txs[i].transfer_id = None
                         /\ txs[i].date >= Today - WindowDays }

\* ORDER BY date DESC: every order of the rows S the query may return
RECURSIVE QueryOrders(_, _)
QueryOrders(txs, S) ==
    IF S = {} THEN { <<>> }
    ELSE LET latest == { i \in S : \A j \in S : txs[i].date >= txs[j].date }
         IN UNION { { <<i>> \o rest : rest \in QueryOrders(txs, S \ {i}) } : i \in latest }

\* The tests of the inner loop body on the pair (tx_a, tx_b)
PairPasses(tx_a, tx_b) ==
    /\ tx_a.account_id # tx_b.account_id
    /\ tx_a.amount = WrappingNeg(tx_b.amount)
    /\ IsSome(ParseDate(tx_a.date)) /\ IsSome(ParseDate(tx_b.date))
    /\ ~(DaysDiff(ParseDate(tx_a.date)[1], ParseDate(tx_b.date)[1]) > MaxDaysDiff)
    /\ Confidence(DaysDiff(ParseDate(tx_a.date)[1], ParseDate(tx_b.date)[1]),
                  CalculatePayeeSimilarity(tx_a.payee, tx_b.payee)) > 500000

\* TransferCandidate { transaction_a, transaction_b, confidence }
Candidate(txs, a, b) ==
    [a |-> a, b |-> b,
     confidence |-> Confidence(DaysDiff(ParseDate(txs[a].date)[1], ParseDate(txs[b].date)[1]),
                               CalculatePayeeSimilarity(txs[a].payee, txs[b].payee))]

\* for tx_b in transactions.iter().skip(i + 1) { ... }
RECURSIVE InnerLoop(_, _, _, _)
InnerLoop(txs, a, rest, acc) ==
    IF rest = <<>> THEN acc
    ELSE InnerLoop(txs, a, Tail(rest),
                   IF PairPasses(txs[a], txs[Head(rest)])
                   THEN Append(acc, Candidate(txs, a, Head(rest))) ELSE acc)

\* for (i, tx_a) in transactions.iter().enumerate() { ... }
RECURSIVE OuterLoop(_, _, _)
OuterLoop(txs, order, acc) ==
    IF order = <<>> THEN acc
    ELSE OuterLoop(txs, Tail(order), InnerLoop(txs, Head(order), Tail(order), acc))

\* Whether the loop negates i64::MIN: -tx_b.amount is evaluated for every
\* pair of different accounts, and panics in a build with overflow checks
NegationOverflows(txs, order) ==
    \E i, j \in 1..Len(order) : /\ i < j
                                /\ txs[order[i]].account_id # txs[order[j]].account_id
                                /\ txs[order[j]].amount = I64Min

\* Variant: the candidates left in the order the loop found them
Unsorted(s) == s

\* candidates.sort_by(|a, b| b.confidence.partial_cmp(&a.confidence)...): a
\* stable sort, confidence descending
RECURSIVE SortByConfidence(_)
SortByConfidence(s) ==
    IF s = <<>> THEN <<>>
    ELSE LET sorted == SortByConfidence(SubSeq(s, 1, Len(s) - 1))
             c == s[Len(s)]
             ahead == Cardinality({ k \in 1..Len(sorted) : sorted[k].confidence >= c.confidence })
         IN SubSeq(sorted, 1, ahead) \o <<c>> \o SubSeq(sorted, ahead + 1, Len(sorted))

\* into_iter().take(n)
Take(s, n) == SubSeq(s, 1, IF Len(s) < n THEN Len(s) ELSE n)

-----------------------------------------------------------------------------
(* Recurring series detector: recurring.rs detect_recurring_transactions   *)

\* date('now', '-365 days')
RecurringWindowDays == 365

\* (tx.amount.abs() / 500) * 500
BucketSize == 500

\* if normalized.len() < 3 { continue }  if txs.len() < 3 { continue }
MinPayeeLen == 3

MinOccurrences == 3

Digits == {"0", "1", "2", "3", "4", "5", "6", "7", "8", "9"}

\* The number of digits the text holds from position pos on, before the
\* first character that is no digit
RECURSIVE DigitRun(_, _)
DigitRun(text, pos) ==
    IF pos <= Len(text) /\ text[pos] \in Digits THEN 1 + DigitRun(text, pos + 1) ELSE 0

\* The length of the match of \d{1,2}<sep>\d{1,2}<sep>\d{2,4} at pos, 0 if none
SeparatedDateLen(text, pos, sep) ==
    LET r1 == DigitRun(text, pos)
        p2 == pos + r1 + 1
        r2 == DigitRun(text, p2)
        p3 == p2 + r2 + 1
        r3 == DigitRun(text, p3)
    IN IF /\ r1 \in {1, 2} /\ pos + r1 <= Len(text) /\ text[pos + r1] = sep
          /\ r2 \in {1, 2} /\ p2 + r2 <= Len(text) /\ text[p2 + r2] = sep
          /\ r3 >= 2
       THEN r1 + 1 + r2 + 1 + (IF r3 > 4 THEN 4 ELSE r3)
       ELSE 0

\* The length of the match of \d{4}-\d{2}-\d{2} at pos, 0 if none
IsoDateLen(text, pos) ==
    IF /\ pos + 9 <= Len(text)
       /\ \A k \in {0, 1, 2, 3, 5, 6, 8, 9} : text[pos + k] \in Digits
       /\ text[pos + 4] = "-" /\ text[pos + 7] = "-"
    THEN 10 ELSE 0

\* The length of the match of \d{6,} at pos, 0 if none
LongNumberLen(text, pos) == IF DigitRun(text, pos) >= 6 THEN DigitRun(text, pos) ELSE 0

\* The length of the match of <mark>\d+ at pos (#\d+ and \*\d+), 0 if none
MarkedNumberLen(text, pos, mark) ==
    IF pos <= Len(text) /\ text[pos] = mark /\ DigitRun(text, pos + 1) >= 1
    THEN 1 + DigitRun(text, pos + 1) ELSE 0

\* The length of the match at pos of the k-th of date_patterns
PatternLen(k, text, pos) ==
    CASE k = 1 -> SeparatedDateLen(text, pos, "/")
      [] k = 2 -> SeparatedDateLen(text, pos, "-")
      [] k = 3 -> IsoDateLen(text, pos)
      [] k = 4 -> LongNumberLen(text, pos)
      [] k = 5 -> MarkedNumberLen(text, pos, "#")
      [] k = 6 -> MarkedNumberLen(text, pos, "*")

\* re.replace_all(&normalized, ""): the leftmost matches, one after the other
RECURSIVE ReplaceAll(_, _, _)
ReplaceAll(k, text, pos) ==
    IF pos > Len(text) THEN <<>>
    ELSE IF PatternLen(k, text, pos) > 0
         THEN ReplaceAll(k, text, pos + PatternLen(k, text, pos))
         ELSE <<text[pos]>> \o ReplaceAll(k, text, pos + 1)

\* for pattern in date_patterns { normalized = re.replace_all(...) }
RECURSIVE StripPatterns(_, _)
StripPatterns(k, text) ==
    IF k > 6 THEN text ELSE StripPatterns(k + 1, ReplaceAll(k, text, 1))

\* split_whitespace().collect::<Vec<_>>().join(" ")
RECURSIVE CollapseWhitespace(_, _)
CollapseWhitespace(text, pos) ==
    IF pos > Len(text) THEN <<>>
    ELSE IF text[pos] = " "
         THEN CollapseWhitespace(text, pos + 1)
         ELSE LET rest == CollapseWhitespace(text, pos + 1)
              IN IF pos < Len(text) /\ text[pos + 1] = " " /\ rest # <<>>
                 THEN <<text[pos], " ">> \o rest
                 ELSE <<text[pos]>> \o rest

\* recurring.rs normalize_payee
NormalizePayee(payee) == CollapseWhitespace(StripPatterns(1, ToLowercase(payee)), 1)

\* x.abs() on an i64 in a build without overflow checks
WrappingAbs(x) == IF x = I64Min THEN I64Min ELSE IF x < 0 THEN -x ELSE x

\* a / b on i64 (b > 0): the quotient rounded toward zero
TruncDiv(a, b) == IF a >= 0 THEN a \div b ELSE -((-a) \div b)

\* i64 addition in a build without overflow checks
WrapI64(n) == ((n - I64Min) % (2 ^ AmountBits)) + I64Min

\* let amount_bucket = (tx.amount.abs() / 500) * 500
AmountBucket(amount) == TruncDiv(WrappingAbs(amount), BucketSize) * BucketSize

\* The positive differences of consecutive dates
RECURSIVE Intervals(_)
Intervals(dates) ==
    IF Len(dates) < 2 THEN <<>>
    ELSE (IF dates[2] - dates[1] > 0 THEN <<dates[2] - dates[1]>> ELSE <<>>)
         \o Intervals(Tail(dates))

\* avg_interval >= lo && avg_interval <= hi, for the mean of the intervals
MeanWithin(intervals, lo, hi) ==
    /\ SumSeq(intervals) >= lo * Len(intervals)
    /\ SumSeq(intervals) <= hi * Len(intervals)

\* Variant: the zero gaps counted in the mean
DetectFrequencyOfAllGaps(dates) ==
    LET gaps == [i \in 1..(Len(dates) - 1) |-> dates[i + 1] - dates[i]]
    IN IF Len(dates) < 3 \/ SumSeq(gaps) = 0 THEN None
       ELSE IF MeanWithin(gaps, 5, 9) THEN Some(<<"weekly", 7>>)
       ELSE IF MeanWithin(gaps, 12, 17) THEN Some(<<"biweekly", 14>>)
       ELSE IF MeanWithin(gaps, 25, 35) THEN Some(<<"monthly", 30>>)
       ELSE IF MeanWithin(gaps, 85, 100) THEN Some(<<"quarterly", 91>>)
       ELSE IF MeanWithin(gaps, 350, 380) THEN Some(<<"yearly", 365>>)
       ELSE None

\* recurring.rs detect_frequency
DetectFrequency(dates) ==
    IF Len(dates) < 3 THEN None
    ELSE LET intervals == Intervals(dates)
         IN IF intervals = <<>> THEN None
            ELSE IF MeanWithin(intervals, 5, 9) THEN Some(<<"weekly", 7>>)
            ELSE IF MeanWithin(intervals, 12, 17) THEN Some(<<"biweekly", 14>>)
            ELSE IF MeanWithin(intervals, 25, 35) THEN Some(<<"monthly", 30>>)
            ELSE IF MeanWithin(intervals, 85, 100) THEN Some(<<"quarterly", 91>>)
            ELSE IF MeanWithin(intervals, 350, 380) THEN Some(<<"yearly", 365>>)
            ELSE None

\* The characters of the model's payees in byte order, the order of the
\* BINARY collation of ORDER BY t.payee
ByteOrder == <<" ", "#", "*", "-", "/", "0", "1", "2", "3", "4", "5", "6", "7", "8", "9",
               "A", "B", "F", "Z", "a", "b", "f", "o", "z", "é">>

CharRank(c) == CHOOSE k \in 1..Len(ByteOrder) : ByteOrder[k] = c

\* a < b in the order of ORDER BY t.payee
RECURSIVE TextLess(_, _)
TextLess(a, b) ==
    IF b = <<>> THEN FALSE
    ELSE IF a = <<>> THEN TRUE
    ELSE IF a[1] = b[1] THEN TextLess(Tail(a), Tail(b))
    ELSE CharRank(a[1]) < CharRank(b[1])

\* The rows the query of detect_recurring_transactions returns
RecurringRows(txs, accts) ==
    { i \in TxIds(txs) :
        /\ txs[i].account_id \in AccountIds /\ accts[txs[i].account_id].exists
        /\ ~txs[i].deleted
        /\ txs[i].transfer_id = None
        /\ IsSome(txs[i].payee) /\ txs[i].payee[1] # <<>>
        /\ txs[i].date >= Today - RecurringWindowDays }

\* let key = format!("{}|{}|{}", normalized, tx.account_id, amount_bucket)
GroupKey(tx) == <<NormalizePayee(tx.payee[1]), tx.account_id, AmountBucket(tx.amount)>>

\* The rows the grouping loop files under a key
GroupedRows(txs, accts) ==
    { i \in RecurringRows(txs, accts) : ~(ByteLen(NormalizePayee(txs[i].payee[1])) < MinPayeeLen) }

GroupKeys(txs, accts) == { GroupKey(txs[i]) : i \in GroupedRows(txs, accts) }

GroupOf(txs, accts, key) == { i \in GroupedRows(txs, accts) : GroupKey(txs[i]) = key }

\* dated_txs: the rows of a group whose date parses
DatedOf(txs, S) == { i \in S : IsSome(ParseDate(txs[i].date)) }

\* Row i precedes row j in dated_txs whatever the order of the ties: the
\* query orders by payee, then date, and sort_by_key(date) is stable
Precedes(txs, i, j) ==
    \/ txs[i].date < txs[j].date
    \/ txs[i].date = txs[j].date /\ TextLess(txs[i].payee[1], txs[j].payee[1])

\* Every order dated_txs may have after the sort
RECURSIVE GroupOrders(_, _)
GroupOrders(txs, S) ==
    IF S = {} THEN { <<>> }
    ELSE LET first == { i \in S : \A j \in S : ~Precedes(txs, j, i) }
         IN UNION { { <<i>> \o rest : rest \in GroupOrders(txs, S \ {i}) } : i \in first }

\* dated_txs.iter().map(|(tx, _)| tx.amount).sum(), without overflow checks
RECURSIVE WrappingSum(_, _)
WrappingSum(txs, order) ==
    IF order = <<>> THEN 0
    ELSE WrapI64(txs[order[Len(order)]].amount + WrappingSum(txs, SubSeq(order, 1, Len(order) - 1)))

\* Some partial sum of the amounts leaves the range of i64
RECURSIVE SumOverflows(_, _)
SumOverflows(txs, order) ==
    /\ order # <<>>
    /\ LET init == SubSeq(order, 1, Len(order) - 1)
           exact == WrappingSum(txs, init) + txs[order[Len(order)]].amount
       IN SumOverflows(txs, init) \/ exact # WrapI64(exact)

\* The DetectedRecurring pushed for dated_txs in the given order
Series(txs, order, frequency) ==
    LET first_tx == txs[order[1]]
        last_tx == txs[order[Len(order)]]
    IN [payee |-> first_tx.payee[1],
        normalized_payee |-> NormalizePayee(first_tx.payee[1]),
        average_amount |-> TruncDiv(WrappingSum(txs, order), Len(order)),
        frequency |-> frequency[1],
        frequency_days |-> frequency[2],
        occurrences |-> Len(order),
        last_date |-> last_tx.date,
        next_expected_date |-> last_tx.date + frequency[2],
        account_id |-> first_tx.account_id,
        category_id |-> first_tx.category_id,
        transactions |-> order]

\* The body of `for (_, txs) in groups` for the group of one key: the set
\* of what it may push, a sequence of no series or of one
SeriesOfGroup(txs, group) ==
    IF Cardinality(group) < MinOccurrences THEN { <<>> }
    ELSE IF Cardinality(DatedOf(txs, group)) < MinOccurrences THEN { <<>> }
    ELSE { LET frequency == DetectFrequency([k \in 1..Len(order) |-> txs[order[k]].date])
           IN IF frequency = None THEN <<>> ELSE <<Series(txs, order, frequency[1])>>
           : order \in GroupOrders(txs, DatedOf(txs, group)) }

\* Every content `detected` may have after the loop over the groups
RECURSIVE DetectedSets(_, _, _)
DetectedSets(txs, accts, keys) ==
    IF keys = {} THEN { {} }
    ELSE LET key == CHOOSE k \in keys : TRUE
         IN { Range(one) \cup others :
                one \in SeriesOfGroup(txs, GroupOf(txs, accts, key)),
                others \in DetectedSets(txs, accts, keys \ {key}) }

\* detected.sort_by(|a, b| a.next_expected_date.cmp(&b.next_expected_date)):
\* the groups of a HashMap come in any order and the sort keeps it for ties
RECURSIVE SortedByNextDate(_)
SortedByNextDate(S) ==
    IF S = {} THEN { <<>> }
    ELSE LET soonest == { s \in S : \A t \in S : s.next_expected_date <= t.next_expected_date }
         IN UNION { { <<s>> \o rest : rest \in SortedByNextDate(S \ {s}) } : s \in soonest }

\* A build with overflow checks panics in tx.amount.abs() or in sum()
RecurringPanics(txs, accts) ==
    \/ \E i \in GroupedRows(txs, accts) : txs[i].amount = I64Min
    \/ \E key \in GroupKeys(txs, accts) :
         LET dated == DatedOf(txs, GroupOf(txs, accts, key))
         IN /\ Cardinality(GroupOf(txs, accts, key)) >= MinOccurrences
            /\ \E order \in GroupOrders(txs, dated) :
                 /\ DetectFrequency([k \in 1..Len(order) |-> txs[order[k]].date]) # None
                 /\ SumOverflows(txs, order)

\* recurring.rs detect_recurring_transactions: the set of outcomes
DetectRecurring(txs, accts) ==
    { [ok |-> TRUE, detected |-> d] :
        d \in UNION { SortedByNextDate(S) : S \in DetectedSets(txs, accts, GroupKeys(txs, accts)) } }
    \cup (IF RecurringPanics(txs, accts) THEN { [ok |-> FALSE, detected |-> <<>>] } ELSE {})

-----------------------------------------------------------------------------
(* Heuristic document parser: import/pdf_parser.rs                          *)

\* if text.trim().len() < 100
MinTextLen == 100

\* if transactions.len() < 3
MinGatedTransactions == 3

\* text.chars().take(500)
SampleLen == 500

\* usize::MAX, the limit parse_pdf and parse_boa pass, at the width of the
\* checker's integers
UsizeMax == 2147483647

UpperLetters == <<"A", "B", "C", "D", "E", "F", "G", "H", "I", "J", "K", "L", "M",
                  "N", "O", "P", "Q", "R", "S", "T", "U", "V", "W", "X", "Y", "Z">>

LowerLetters == <<"a", "b", "c", "d", "e", "f", "g", "h", "i", "j", "k", "l", "m",
                  "n", "o", "p", "q", "r", "s", "t", "u", "v", "w", "x", "y", "z">>

\* char::is_whitespace
Whitespace == {" ", "\t", "\n", "\r"}

\* char::to_lowercase and char::to_uppercase of the ASCII letters
LowerOf == [c \in Range(UpperLetters) |-> LowerLetters[CHOOSE k \in 1..26 : UpperLetters[k] = c]]

UpperOf == [c \in Range(LowerLetters) |-> UpperLetters[CHOOSE k \in 1..26 : LowerLetters[k] = c]]

\* str::to_lowercase on ASCII text
AsciiLower(s) == [i \in 1..Len(s) |-> IF s[i] \in DOMAIN LowerOf THEN LowerOf[s[i]] ELSE s[i]]

\* str::to_uppercase on ASCII text
AsciiUpper(s) == [i \in 1..Len(s) |-> IF s[i] \in DOMAIN UpperOf THEN UpperOf[s[i]] ELSE s[i]]

\* str::ends_with
EndsWith(s, suffix) ==
    Len(suffix) <= Len(s) /\ SubSeq(s, Len(s) - Len(suffix) + 1, Len(s)) = suffix

\* str::trim
RECURSIVE Trim(_)
Trim(s) ==
    IF s = <<>> THEN s
    ELSE IF s[1] \in Whitespace THEN Trim(Tail(s))
    ELSE IF s[Len(s)] \in Whitespace THEN Trim(SubSeq(s, 1, Len(s) - 1))
    ELSE s

\* str::replace(c, ""): the text without the characters of the set
Without(s, chars) == SelectSeq(s, LAMBDA c : c \notin chars)

\* str::trim_end_matches(c)
RECURSIVE TrimEndMatches(_, _)
TrimEndMatches(s, c) ==
    IF s # <<>> /\ s[Len(s)] = c THEN TrimEndMatches(SubSeq(s, 1, Len(s) - 1), c) ELSE s

\* str::lines, from position pos on: the texts between the line feeds
RECURSIVE Lines(_, _)
Lines(text, pos) ==
    LET RECURSIVE Run(_)
        Run(p) == IF p <= Len(text) /\ text[p] # "\n" THEN 1 + Run(p + 1) ELSE 0
        n == Run(pos)
    IN IF pos > Len(text) THEN <<>>
       ELSE <<TrimEndMatches(SubSeq(text, pos, pos + n - 1), "\r")>> \o Lines(text, pos + n + 1)

\* The number a run of digits denotes
RECURSIVE DigitsValue(_)
DigitsValue(s) ==
    IF s = <<>> THEN 0
    ELSE 10 * DigitsValue(SubSeq(s, 1, Len(s) - 1))
         + (CHOOSE d \in 0..9 : ToString(d) = s[Len(s)])

\* (s.parse::<f64>().ok()? * 100.0).round() for a text of digits with at most
\* two digits after a point, which is all the amount patterns let through;
\* None where the parse fails
DecimalCents(s) ==
    LET Cents(whole, point, frac) ==
            IF whole + point + frac = Len(s) /\ whole + frac > 0 /\ frac <= 2
            THEN Some(100 * DigitsValue(SubSeq(s, 1, whole))
                      + (IF frac = 1 THEN 10 ELSE 1)
                        * DigitsValue(SubSeq(s, whole + 2, whole + 1 + frac)))
            ELSE None
        AfterWhole(whole, point) ==
            Cents(whole, point, IF point = 1 THEN DigitRun(s, whole + 2) ELSE 0)
        Whole(whole) ==
            AfterWhole(whole, IF whole < Len(s) /\ s[whole + 1] = "." THEN 1 ELSE 0)
    IN Whole(DigitRun(s, 1))

\* s.ends_with("CR") of the upper-cased text
IsCredit(cleaned) == EndsWith(AsciiUpper(cleaned), <<"C", "R">>)

\* The text parse_amount is left with once "CR" is trimmed off its end
AfterCR(cleaned) ==
    IF IsCredit(cleaned) THEN SubSeq(cleaned, 1, Len(cleaned) - 2) ELSE cleaned

\* The three signs of a charge parse_amount takes off: "(..)", "-.." and "..-"
Parenthesised(s) == StartsWith(s, <<"(">>) /\ EndsWith(s, <<")">>)

\* The digits parse_amount hands to parse::<f64>()
NumStr(after_cr) ==
    IF Parenthesised(after_cr) THEN SubSeq(after_cr, 2, Len(after_cr) - 1)
    ELSE IF StartsWith(after_cr, <<"-">>) THEN Tail(after_cr)
    ELSE IF EndsWith(after_cr, <<"-">>) THEN SubSeq(after_cr, 1, Len(after_cr) - 1)
    ELSE after_cr

\* parse_amount with the sign of a charge kept as printed: only a token with
\* a parenthesis or a minus sign is negative
PdfParseAmountOfPrintedSign(s) ==
    LET Signed(cleaned, after_cr, cents) ==
            IF cleaned = <<>> \/ cents = None THEN None
            ELSE IF \/ IsCredit(cleaned)
                    \/ ~(\/ Parenthesised(after_cr)
                         \/ StartsWith(after_cr, <<"-">>)
                         \/ EndsWith(after_cr, <<"-">>))
                 THEN cents
                 ELSE Some(-cents[1])
        OfNumber(cleaned, after_cr) == Signed(cleaned, after_cr, DecimalCents(NumStr(after_cr)))
        OfCleaned(cleaned) == OfNumber(cleaned, AfterCR(cleaned))
    IN OfCleaned(Without(Trim(s), {",", "$"}))

\* pdf_parser.rs parse_amount
PdfParseAmount(s) ==
    LET Signed(cleaned, cents) ==
            IF cleaned = <<>> \/ cents = None THEN None
            ELSE IF IsCredit(cleaned) THEN cents
            ELSE Some(-cents[1])
        OfCleaned(cleaned) == Signed(cleaned, DecimalCents(NumStr(AfterCR(cleaned))))
    IN OfCleaned(Without(Trim(s), {",", "$"}))

\* The length of the match at pos of [\$]?[\-\(]?[\d,]{1,12}\.\d{2}, 0 if none
AmountStartLen(text, pos) ==
    LET RECURSIVE Run(_)
        Run(p) == IF p <= Len(text) /\ text[p] \in Digits \cup {","} THEN 1 + Run(p + 1) ELSE 0
        Match(lead, r) ==
            IF /\ r >= 1 /\ r <= 12
               /\ pos + lead + r <= Len(text) /\ text[pos + lead + r] = "."
               /\ DigitRun(text, pos + lead + r + 1) >= 2
            THEN lead + r + 3
            ELSE 0
        AfterLead(lead) == Match(lead, Run(pos + lead))
        AfterDollar(a) ==
            AfterLead(a + (IF pos + a <= Len(text) /\ text[pos + a] \in {"-", "("} THEN 1 ELSE 0))
    IN AfterDollar(IF pos <= Len(text) /\ text[pos] = "$" THEN 1 ELSE 0)

\* The length of the match at pos of amount_pattern,
\* [\$]?[\-\(]?[\d,]{1,12}\.\d{2}[\)\-]?(?:CR)?, 0 if none
AmountLen(text, pos) ==
    LET WithCR(m) ==
            IF m + 1 <= Len(text) /\ text[m] = "C" /\ text[m + 1] = "R" THEN m + 2 - pos
            ELSE m - pos
        WithClose(m) ==
            WithCR(IF m <= Len(text) /\ text[m] \in {")", "-"} THEN m + 1 ELSE m)
        OfStart(n) == IF n = 0 THEN 0 ELSE WithClose(pos + n)
    IN OfStart(AmountStartLen(text, pos))

\* amount_pattern.find_iter(line): the matches from left to right
RECURSIVE FindAmounts(_, _)
FindAmounts(line, pos) ==
    LET Found(n) ==
            IF n > 0 THEN <<SubSeq(line, pos, pos + n - 1)>> \o FindAmounts(line, pos + n)
            ELSE FindAmounts(line, pos + 1)
    IN IF pos > Len(line) THEN <<>> ELSE Found(AmountLen(line, pos))

\* amt.abs() <= 1_000_000_000
MaxPdfAmount == 1000000000

\* pdf_parser.rs extract_amounts_from_end
ExtractAmountsFromEnd(line) ==
    LET Kept(parsed) ==
            SelectSeq(parsed, LAMBDA a : IsSome(a) /\ a[1] <= MaxPdfAmount
                                                    /\ -a[1] <= MaxPdfAmount)
        Values(kept) == [k \in 1..Len(kept) |-> kept[k][1]]
        OfLastThree(last3) == Values(Kept([k \in 1..Len(last3) |-> PdfParseAmount(last3[k])]))
        LastThree(matches) ==
            OfLastThree(SubSeq(matches, (IF Len(matches) > 3 THEN Len(matches) - 2 ELSE 1),
                          Len(matches)))
    IN LastThree(FindAmounts(line, 1))

\* The length of the match of the k-th of DATE_PATTERNS at the start of text
DatePatternLen(k, text) ==
    CASE k = 1 -> SeparatedDateLen(text, 1, "/")
      [] k = 2 -> IsoDateLen(text, 1)
      [] k = 3 -> SeparatedDateLen(text, 1, "-")

\* The first of DATE_PATTERNS that matches at the start of the text, 0 if none
FirstDatePattern(text) ==
    IF DatePatternLen(1, text) > 0 THEN 1
    ELSE IF DatePatternLen(2, text) > 0 THEN 2
    ELSE IF DatePatternLen(3, text) > 0 THEN 3
    ELSE 0

\* pdf_parser.rs starts_with_date
StartsWithDate(line) == FirstDatePattern(Trim(line)) > 0

\* pdf_parser.rs parse_date, of a text one of DATE_PATTERNS matched: the
\* year, month and day that format!("{:04}-{:02}-{:02}") prints
PdfParseDate(s) ==
    LET Year(third) == IF third < 100 THEN third + 2000 ELSE third
        Separated(r1, r2) ==
            <<Year(DigitsValue(SubSeq(s, r1 + r2 + 3, Len(s)))),
              DigitsValue(SubSeq(s, 1, r1)), DigitsValue(SubSeq(s, r1 + 2, r1 + 1 + r2))>>
        AfterFirst(r1) == Separated(r1, DigitRun(s, r1 + 2))
    IN IF IsoDateLen(s, 1) > 0 /\ SeparatedDateLen(s, 1, "/") = 0
       THEN <<DigitsValue(SubSeq(s, 1, 4)), DigitsValue(SubSeq(s, 6, 7)),
              DigitsValue(SubSeq(s, 9, 10))>>
       ELSE AfterFirst(DigitRun(s, 1))

\* pdf_parser.rs extract_date_from_line, of the trimmed line: the date and
\* the end of its match
ExtractDateFromLine(line) ==
    LET Matched(trimmed, n) == Some(<<PdfParseDate(SubSeq(trimmed, 1, n)), n>>)
        OfPattern(trimmed, k) ==
            IF k = 0 THEN None ELSE Matched(trimmed, DatePatternLen(k, trimmed))
        OfTrimmed(trimmed) == OfPattern(trimmed, FirstDatePattern(trimmed))
    IN OfTrimmed(Trim(line))

\* after_date[..first_amount.start()]: the text before the first match of
\* [\$]?[\-\(]?[\d,]{1,12}\.\d{2}, all of it when there is none
RECURSIVE BeforeFirstAmount(_, _)
BeforeFirstAmount(text, pos) ==
    IF pos > Len(text) THEN text
    ELSE IF AmountStartLen(text, pos) > 0 THEN SubSeq(text, 1, pos - 1)
    ELSE BeforeFirstAmount(text, pos + 1)

\* if description.len() < 2
MinDescriptionLen == 2

\* pdf_parser.rs parse_transaction_line
ParseTransactionLine(line, category) ==
    LET Built(date, amounts, description) ==
            IF amounts = <<>> \/ ByteLen(description) < MinDescriptionLen THEN None
            ELSE Some([date |-> date[1][1],
                       description |-> description,
                       amount |-> amounts[1],
                       running_balance |-> IF Len(amounts) >= 2
                                           THEN Some(amounts[Len(amounts)])
                                           ELSE None,
                       raw_line |-> line,
                       category |-> category])
        AfterDate(trimmed, date) ==
            IF date = None THEN None
            ELSE Built(date, ExtractAmountsFromEnd(line),
                       Trim(BeforeFirstAmount(SubSeq(trimmed, date[1][2] + 1, Len(trimmed)), 1)))
        OfTrimmed(trimmed) == AfterDate(trimmed, ExtractDateFromLine(trimmed))
    IN OfTrimmed(Trim(line))

HeaderKeywords ==
    { <<"d", "a", "t", "e">>,
      <<"d", "e", "s", "c", "r", "i", "p", "t", "i", "o", "n">>,
      <<"a", "m", "o", "u", "n", "t">>,
      <<"b", "a", "l", "a", "n", "c", "e">>, <<"d", "e", "b", "i", "t">>,
      <<"c", "r", "e", "d", "i", "t">>,
      <<"w", "i", "t", "h", "d", "r", "a", "w", "a", "l">>,
      <<"d", "e", "p", "o", "s", "i", "t">>,
      <<"t", "r", "a", "n", "s", "a", "c", "t", "i", "o", "n">>,
      <<"p", "o", "s", "t", "e", "d">> }

MonthAbbrevs ==
    { <<"j", "a", "n">>, <<"f", "e", "b">>, <<"m", "a", "r">>,
      <<"a", "p", "r">>, <<"m", "a", "y">>, <<"j", "u", "n">>,
      <<"j", "u", "l">>, <<"a", "u", "g">>, <<"s", "e", "p">>,
      <<"o", "c", "t">>, <<"n", "o", "v">>, <<"d", "e", "c">> }

SummaryKeywords ==
    { <<"t", "o", "t", "a", "l">>, <<"s", "u", "m", "m", "a", "r", "y">>,
      <<"s", "u", "b", "t", "o", "t", "a", "l">>,
      <<"b", "a", "l", "a", "n", "c", "e", " ", "f", "o", "r", "w", "a", "r", "d">>,
      <<"p", "r", "e", "v", "i", "o", "u", "s", " ", "b", "a", "l", "a", "n", "c", "e">>,
      <<"e", "n", "d", "i", "n", "g", " ", "b", "a", "l", "a", "n", "c", "e">>,
      <<"b", "e", "g", "i", "n", "n", "i", "n", "g", " ", "b", "a", "l", "a", "n", "c", "e">>,
      <<"o", "p", "e", "n", "i", "n", "g", " ", "b", "a", "l", "a", "n", "c", "e">>,
      <<"c", "l", "o", "s", "i", "n", "g", " ", "b", "a", "l", "a", "n", "c", "e">>,
      <<"a", "v", "e", "r", "a", "g", "e">>,
      <<"m", "i", "n", "i", "m", "u", "m">>,
      <<"m", "a", "x", "i", "m", "u", "m">>, <<"p", "a", "g", "e">>,
      <<"c", "o", "n", "t", "i", "n", "u", "e", "d">>,
      <<"s", "p", "e", "n", "d", "i", "n", "g">>,
      <<"i", "n", "c", "o", "m", "e">>, <<"n", "e", "t">>,
      <<"c", "a", "s", "h", " ", "f", "l", "o", "w">>,
      <<"o", "v", "e", "r", "v", "i", "e", "w">>,
      <<"b", "r", "e", "a", "k", "d", "o", "w", "n">> }

CategoryKeywords ==
    { <<"g", "r", "o", "c", "e", "r", "i", "e", "s">>,
      <<"d", "i", "n", "i", "n", "g">>,
      <<"r", "e", "s", "t", "a", "u", "r", "a", "n", "t", "s">>,
      <<"s", "h", "o", "p", "p", "i", "n", "g">>,
      <<"e", "n", "t", "e", "r", "t", "a", "i", "n", "m", "e", "n", "t">>,
      <<"u", "t", "i", "l", "i", "t", "i", "e", "s">>,
      <<"b", "i", "l", "l", "s">>,
      <<"t", "r", "a", "n", "s", "p", "o", "r", "t", "a", "t", "i", "o", "n">>,
      <<"g", "a", "s">>, <<"t", "r", "a", "v", "e", "l">>,
      <<"h", "e", "a", "l", "t", "h", "c", "a", "r", "e">>,
      <<"m", "e", "d", "i", "c", "a", "l">>,
      <<"i", "n", "s", "u", "r", "a", "n", "c", "e">>,
      <<"e", "d", "u", "c", "a", "t", "i", "o", "n">>,
      <<"s", "u", "b", "s", "c", "r", "i", "p", "t", "i", "o", "n", "s">>,
      <<"p", "e", "r", "s", "o", "n", "a", "l">>, <<"h", "o", "m", "e">>,
      <<"a", "u", "t", "o", "m", "o", "t", "i", "v", "e">>,
      <<"c", "l", "o", "t", "h", "i", "n", "g">>,
      <<"e", "l", "e", "c", "t", "r", "o", "n", "i", "c", "s">>,
      <<"g", "i", "f", "t", "s">>,
      <<"d", "o", "n", "a", "t", "i", "o", "n", "s">>,
      <<"f", "e", "e", "s">>, <<"t", "a", "x", "e", "s">>,
      <<"i", "n", "c", "o", "m", "e">>, <<"s", "a", "l", "a", "r", "y">>,
      <<"t", "r", "a", "n", "s", "f", "e", "r">>,
      <<"p", "a", "y", "m", "e", "n", "t">> }

FullMonths ==
    { <<"j", "a", "n", "u", "a", "r", "y">>,
      <<"f", "e", "b", "r", "u", "a", "r", "y">>,
      <<"m", "a", "r", "c", "h">>, <<"a", "p", "r", "i", "l">>,
      <<"m", "a", "y">>, <<"j", "u", "n", "e">>, <<"j", "u", "l", "y">>,
      <<"a", "u", "g", "u", "s", "t">>,
      <<"s", "e", "p", "t", "e", "m", "b", "e", "r">>,
      <<"o", "c", "t", "o", "b", "e", "r">>,
      <<"n", "o", "v", "e", "m", "b", "e", "r">>,
      <<"d", "e", "c", "e", "m", "b", "e", "r">> }

\* pdf_parser.rs is_header_line
IsHeaderLine(line) ==
    Cardinality({ k \in HeaderKeywords : Contains(AsciiLower(line), k) }) >= 2

\* pdf_parser.rs is_transaction_section_start
IsTransactionSectionStart(line) ==
    \E k \in { <<"t", "r", "a", "n", "s", "a", "c", "t", "i", "o", "n">>,
           <<"a", "c", "t", "i", "v", "i", "t", "y">>,
           <<"d", "e", "t", "a", "i", "l", "s">>,
           <<"a", "c", "c", "o", "u", "n", "t", " ", "a", "c", "t", "i", "v", "i", "t", "y">> } :
        Contains(AsciiLower(line), k)

\* Variant: the header's text returned with the colons that end it
ExtractCategoryHeaderOfLine(line) ==
    LET trimmed == TrimEndMatches(Trim(AsciiLower(line)), ":")
    IN IF StartsWithDate(line) THEN None
       ELSE IF \E c \in CategoryKeywords : trimmed = c \/ StartsWith(trimmed, c \o <<" ">>)
            THEN Some(Trim(line))
            ELSE None

\* pdf_parser.rs extract_category_header
ExtractCategoryHeader(line) ==
    LET trimmed == TrimEndMatches(Trim(AsciiLower(line)), ":")
    IN IF StartsWithDate(line) THEN None
       ELSE IF \E c \in CategoryKeywords : trimmed = c \/ StartsWith(trimmed, c \o <<" ">>)
            THEN Some(TrimEndMatches(Trim(line), ":"))
            ELSE None

\* ^\$[\d,]+\.\d{2}$
IsDollarAmount(s) ==
    LET RECURSIVE Run(_)
        Run(p) == IF p <= Len(s) /\ s[p] \in Digits \cup {","} THEN 1 + Run(p + 1) ELSE 0
        r == Run(2)
    IN /\ s # <<>> /\ s[1] = "$"
       /\ r >= 1
       /\ Len(s) = r + 4
       /\ s[r + 2] = "." /\ s[r + 3] \in Digits /\ s[r + 4] \in Digits

\* ^\d+\.?\d*\s+[A-Z]{3}$
IsChartLabel(s) ==
    LET d1 == DigitRun(s, 1)
        p == IF d1 < Len(s) /\ s[d1 + 1] = "." THEN 1 ELSE 0
        d2 == DigitRun(s, d1 + p + 1)
        RECURSIVE Space(_)
        Space(q) == IF q <= Len(s) /\ s[q] \in Whitespace THEN 1 + Space(q + 1) ELSE 0
        w == Space(d1 + p + d2 + 1)
    IN /\ d1 >= 1 /\ w >= 1
       /\ Len(s) = d1 + p + d2 + w + 3
       /\ \A q \in (Len(s) - 2)..Len(s) : \E k \in 1..26 : UpperLetters[k] = s[q]

\* pdf_parser.rs is_chart_noise
IsChartNoise(line) ==
    LET trimmed == Trim(line)
        lower == AsciiLower(trimmed)
    IN \/ ByteLen(trimmed) < 3
       \/ IsDollarAmount(trimmed)
       \/ /\ \A i \in 1..Len(trimmed) :
               trimmed[i] \in Digits \cup {".", ",", "%", "$"} \cup Whitespace
          /\ ("." \notin Range(trimmed) \/ ByteLen(trimmed) < 4)
       \/ IsChartLabel(trimmed)
       \/ \E m \in MonthAbbrevs : lower = m \/ lower = m \o <<".">>
       \/ \E m \in FullMonths : lower = m \/ (StartsWith(lower, m) /\ "$" \in Range(lower))

\* pdf_parser.rs is_category_total_line, with its pattern
\* ^[A-Za-z][A-Za-z\s/]+\$[\d,]+\.\d{2}$
IsCategoryTotalLine(line) ==
    LET trimmed == Trim(line)
        IsLetter(c) == \E k \in 1..26 : UpperLetters[k] = c \/ LowerLetters[k] = c
        RECURSIVE Words(_)
        Words(p) == IF p <= Len(trimmed)
                       /\ (IsLetter(trimmed[p]) \/ trimmed[p] \in Whitespace \cup {"/"})
                    THEN 1 + Words(p + 1) ELSE 0
        w == Words(2)
    IN /\ "$" \in Range(trimmed)
       /\ ~StartsWithDate(line)
       /\ IsLetter(trimmed[1])
       /\ w >= 1
       /\ IsDollarAmount(SubSeq(trimmed, w + 2, Len(trimmed)))

\* pdf_parser.rs should_skip_line
ShouldSkipLine(line) ==
    \/ \E k \in SummaryKeywords : Contains(AsciiLower(line), k)
    \/ Cardinality({ m \in MonthAbbrevs : Contains(AsciiLower(line), m) }) >= 2
    \/ IsSome(ExtractCategoryHeader(line))
    \/ IsChartNoise(line)
    \/ IsCategoryTotalLine(line)
    \/ StartsWith(AsciiLower(line), <<"q", "u", "a", "r", "t", "e", "r", "l", "y">>)
    \/ StartsWith(AsciiLower(line), <<"a", "n", "n", "u", "a", "l">>)

\* What the two loops of preview_pdf test of a trimmed line
Classify(trimmed) ==
    [section |-> IsTransactionSectionStart(trimmed),
     header |-> IsHeaderLine(trimmed),
     category |-> ExtractCategoryHeader(trimmed),
     skip |-> ShouldSkipLine(trimmed),
     dated |-> StartsWithDate(trimmed),
     tx |-> ParseTransactionLine(trimmed, None)]

\* The documents the files specification draws

\* A charge
CoffeeLine ==
    <<"0", "1", "/", "1", "5", "/", "2", "5", " ", "C", "O", "F", "F", "E", "E", " ",
      "S", "H", "O", "P", " ", "5", ".", "5", "0">>

\* A credit
RefundLine ==
    <<"0", "1", "/", "2", "9", "/", "2", "4", " ", "S", "Q", " ", "*", "S", "E", "L",
      "F", " ", "E", "D", "G", "E", " ", "1", "1", "3", ".", "1", "9", "C", "R">>

\* A category header
CategoryLine ==
    <<"D", "i", "n", "i", "n", "g", ":">>

\* A category header without colon
GroceriesLine ==
    <<"G", "r", "o", "c", "e", "r", "i", "e", "s">>

\* A table header
HeaderLine ==
    <<"D", "a", "t", "e", " ", "D", "e", "s", "c", "r", "i", "p", "t", "i", "o", "n",
      " ", "A", "m", "o", "u", "n", "t">>

\* A section start
SectionLine ==
    <<"A", "c", "c", "o", "u", "n", "t", " ", "A", "c", "t", "i", "v", "i", "t", "y">>

\* A dated line with a summary keyword (net)
NetflixLine ==
    <<"0", "1", "/", "1", "6", "/", "2", "5", " ", "N", "E", "T", "F", "L", "I", "X",
      " ", "1", "5", ".", "9", "9">>

\* A dated line without amount
PendingLine ==
    <<"0", "1", "/", "1", "7", "/", "2", "5", " ", "P", "E", "N", "D", "I", "N", "G">>

\* An ISO date, a parenthesized amount and a balance
IsoLine ==
    <<"2", "0", "2", "5", "-", "0", "1", "-", "1", "8", " ", "R", "E", "F", "U", "N",
      "D", " ", "(", "$", "5", "0", ".", "0", "0", ")", " ", "1", ",", "2", "3", "4",
      ".", "5", "6">>

\* An empty line
EmptyLine ==
    <<>>

\* A dash date and a trailing minus
DashLine ==
    <<"0", "1", "-", "1", "9", "-", "2", "0", "2", "5", " ", "L", "A", "T", "E", " ",
      "5", "0", ".", "0", "0", "-">>

\* A dated line that is a section start
MarkerLine ==
    <<"0", "1", "/", "2", "0", "/", "2", "5", " ", "T", "R", "A", "N", "S", "A", "C",
      "T", "I", "O", "N", " ", "F", "E", "E", " ", "2", ".", "0", "0">>

\* A total
TotalLine ==
    <<"T", "o", "t", "a", "l", " ", "$", "6", "0", ".", "7", "3">>

\* A dated line with a description of one character
ShortLine ==
    <<"0", "1", "/", "2", "1", "/", "2", "5", " ", "X", " ", "1", ".", "0", "0">>

\* A dated line with an amount above the limit
HugeLine ==
    <<"0", "1", "/", "2", "2", "/", "2", "5", " ", "W", "I", "R", "E", " ", "1", "0",
      ",", "0", "0", "0", ",", "0", "0", "0", ".", "0", "1">>

\* A line of 100 characters that is no marker, header, category or dated line
LongLine ==
    <<"S", "t", "a", "t", "e", "m", "e", "n", "t", " ", "p", "r", "e", "p", "a", "r",
      "e", "d", " ", "f", "o", "r", " ", "t", "h", "e", " ", "h", "o", "l", "d", "e",
      "r", " ", "o", "f", " ", "t", "h", "e", " ", "c", "a", "r", "d", " ", "b", "y",
      " ", "t", "h", "e", " ", "b", "r", "a", "n", "c", "h", " ", "o", "f", "f", "i",
      "c", "e", " ", "o", "n", " ", "t", "h", "e", " ", "f", "i", "r", "s", "t", " ",
      "f", "l", "o", "o", "r", ",", " ", "t", "o", " ", "b", "e", " ", "k", "e", "p",
      "t", "x", "y", "x">>

\* 98 characters in 100 bytes
AccentLine == SubSeq(LongLine, 1, MinTextLen - 4) \o <<"é", "é">>

\* The lines of the drawn texts
PdfLines == { CoffeeLine, RefundLine, CategoryLine, HeaderLine, SectionLine, NetflixLine,
              PendingLine, IsoLine, EmptyLine, DashLine, MarkerLine, TotalLine, ShortLine,
              HugeLine, GroceriesLine }

\* The lines of the longer texts
CorePdfLines == { CoffeeLine, RefundLine, CategoryLine, SectionLine, GroceriesLine, MarkerLine }

ShortBodyLen == 2

LongBodyLen == 4

RECURSIVE SeqsOfLen(_, _)
SeqsOfLen(S, n) ==
    IF n = 0 THEN { <<>> }
    ELSE { Append(s, x) : s \in SeqsOfLen(S, n - 1), x \in S }

\* all_text.push_str(&text_page.full()); all_text.push('\n')
RECURSIVE JoinLines(_)
JoinLines(lines) ==
    IF lines = <<>> THEN <<>> ELSE lines[1] \o <<"\n">> \o JoinLines(Tail(lines))

PdfBodies ==
    UNION { SeqsOfLen(PdfLines, n) : n \in 0..ShortBodyLen }
    \cup UNION { SeqsOfLen(CorePdfLines, n) : n \in (ShortBodyLen + 1)..LongBodyLen }

\* The texts extract_text returns: a body, alone or after the long line; the
\* long line cut by one character, alone and after two spaces; the accented
\* line
PdfTexts ==
    { JoinLines(pre \o body) : pre \in { <<>>, <<LongLine>> }, body \in PdfBodies }
    \cup { JoinLines(<<SubSeq(LongLine, 1, MinTextLen - 1)>>), JoinLines(<<AccentLine>>),
           <<" ", " ">> \o JoinLines(<<SubSeq(LongLine, 1, MinTextLen - 1)>>) }

\* The amount tokens: every text of the shape of amount_pattern built from an
\* optional "$", an optional "-" or "(", digits, an optional ")" or "-" and an
\* optional "CR"
AmountBodies == { <<"5", ".", "5", "0">>, <<"5", "0", ".", "0", "0">>,
                  <<"1", "1", "3", ".", "1", "9">>, <<"0", ".", "0", "0">>,
                  <<"1", ",", "0", "5", "0", ".", "0", "0">>,
                  <<"1", ",", "2", "8", "5", ".", "0", "0">> }

AmountTokens ==
    { p \o o \o b \o c \o s : p \in { <<>>, <<"$">> }, o \in { <<>>, <<"-">>, <<"(">> },
                              b \in AmountBodies, c \in { <<>>, <<")">>, <<"-">> },
                              s \in { <<>>, <<"C", "R">> } }

\* The lines of the drawn texts, trimmed
ClassifiedLines == PdfLines \cup {LongLine, AccentLine, SubSeq(LongLine, 1, MinTextLen - 1)}

\* Classify, computed once for every line of the drawn texts
PdfLineFacts == [l \in ClassifiedLines |-> Classify(l)]

\* Classify(trimmed)
FactsOf(trimmed) ==
    IF trimmed \in ClassifiedLines THEN PdfLineFacts[trimmed] ELSE Classify(trimmed)

\* The state of a loop of preview_pdf before its first line
PassStart ==
    [transactions |-> <<>>, in_transaction_section |-> FALSE, past_summary |-> FALSE,
     valid_lines |-> 0, total_lines |-> 0, current_category |-> None]

\* Variant: the first loop keeps every line it parses
GatedStepOfEveryParsedLine(s, line) ==
    LET Step(trimmed, f) ==
            IF trimmed = <<>> THEN s
            ELSE IF f.section
                 THEN [s EXCEPT !.in_transaction_section = TRUE, !.past_summary = TRUE]
            ELSE IF f.header THEN [s EXCEPT !.past_summary = TRUE]
            ELSE IF IsSome(f.category) THEN [s EXCEPT !.current_category = f.category]
            ELSE IF f.skip THEN s
            ELSE IF ~f.dated THEN s
            ELSE IF f.tx = None THEN [s EXCEPT !.total_lines = @ + 1]
            ELSE [s EXCEPT !.total_lines = @ + 1,
                           !.valid_lines = @ + 1,
                           !.transactions =
                               Append(@, [f.tx[1] EXCEPT !.category = s.current_category])]
        OfTrimmed(trimmed) == Step(trimmed, FactsOf(trimmed))
    IN OfTrimmed(Trim(line))

\* The body of the first loop of preview_pdf, for one line
GatedStep(s, line) ==
    LET Step(trimmed, f) ==
            IF trimmed = <<>> THEN s
            ELSE IF f.section
                 THEN [s EXCEPT !.in_transaction_section = TRUE, !.past_summary = TRUE]
            ELSE IF f.header THEN [s EXCEPT !.past_summary = TRUE]
            ELSE IF IsSome(f.category) THEN [s EXCEPT !.current_category = f.category]
            ELSE IF f.skip THEN s
            ELSE IF ~f.dated THEN s
            ELSE IF f.tx = None THEN [s EXCEPT !.total_lines = @ + 1]
            ELSE [s EXCEPT !.total_lines = @ + 1,
                           !.valid_lines = @ + 1,
                           !.transactions =
                               IF s.past_summary \/ s.in_transaction_section \/ @ = <<>>
                               THEN Append(@, [f.tx[1] EXCEPT !.category = s.current_category])
                               ELSE @]
        OfTrimmed(trimmed) == Step(trimmed, FactsOf(trimmed))
    IN OfTrimmed(Trim(line))

\* The body of the second loop of preview_pdf, for one line
FallbackStep(s, line) ==
    LET Step(trimmed, f) ==
            IF trimmed = <<>> THEN s
            ELSE IF IsSome(f.category) THEN [s EXCEPT !.current_category = f.category]
            ELSE IF f.skip THEN s
            ELSE IF ~f.dated THEN s
            ELSE IF f.tx = None THEN [s EXCEPT !.total_lines = @ + 1]
            ELSE [s EXCEPT !.total_lines = @ + 1,
                           !.valid_lines = @ + 1,
                           !.transactions =
                               Append(@, [f.tx[1] EXCEPT !.category = s.current_category])]
        OfTrimmed(trimmed) == Step(trimmed, FactsOf(trimmed))
    IN OfTrimmed(Trim(line))

\* for line in &lines, first loop
RECURSIVE GatedPass(_, _)
GatedPass(s, lines) ==
    IF lines = <<>> THEN s
    ELSE GatedPass(GatedStep(s, lines[1]), Tail(lines))

\* for line in &lines, second loop
RECURSIVE FallbackPass(_, _)
FallbackPass(s, lines) ==
    IF lines = <<>> THEN s
    ELSE FallbackPass(FallbackStep(s, lines[1]), Tail(lines))

\* is_header_line(line)
IsHeader(line) ==
    IF line \in ClassifiedLines THEN PdfLineFacts[line].header ELSE IsHeaderLine(line)

\* pdf_parser.rs detect_format
DetectFormat(text, lines) ==
    LET Has(lower, name) == Contains(lower, name)
        Format(lower) ==
            IF Has(lower, <<"b", "a", "n", "k", " ", "o", "f", " ", "a", "m", "e", "r", "i", "c", "a">>)
            THEN Some("Bank of America")
            ELSE IF Has(lower, <<"c", "h", "a", "s", "e">>) THEN Some("Chase")
            ELSE IF Has(lower, <<"w", "e", "l", "l", "s", " ", "f", "a", "r", "g", "o">>)
                 THEN Some("Wells Fargo")
            ELSE IF Has(lower, <<"c", "i", "t", "i">>) THEN Some("Citi")
            ELSE Some("Generic")
        Columns(header) == { k \in HeaderKeywords : Contains(AsciiLower(header), k) }
        OfHeaders(headers) ==
            IF headers = {} THEN [format |-> None, columns |-> {}]
            ELSE [format |-> Format(AsciiLower(text)),
                  columns |-> Columns(lines[CHOOSE i \in headers : \A j \in headers : i <= j])]
    IN OfHeaders({ i \in 1..Len(lines) : IsHeader(lines[i]) })

\* valid_lines as f32 / total_lines as f32, as the fraction in lowest terms
\* (0.0 is <<0, 1>>)
Ratio(valid, total) ==
    IF total = 0 \/ valid = 0 THEN <<0, 1>>
    ELSE LET g == CHOOSE d \in 1..total :
                    /\ valid % d = 0 /\ total % d = 0
                    /\ \A e \in (d + 1)..total : ~(valid % e = 0 /\ total % e = 0)
         IN <<valid \div g, total \div g>>

\* Variant: the counters of the first loop kept when the second loop ran
PreviewPdfOfGatedCounters(text, limit) ==
    LET Preview(lines, gated, pass) ==
            [ok |-> TRUE,
             transactions |-> Take(pass.transactions, limit),
             total_rows |-> Len(pass.transactions),
             detected |-> DetectFormat(text, lines),
             raw_text_sample |-> Take(text, SampleLen),
             confidence |-> Ratio(gated.valid_lines, gated.total_lines)]
        AfterGated(lines, gated) ==
            Preview(lines, gated,
                    IF Len(gated.transactions) < MinGatedTransactions
                    THEN FallbackPass(PassStart, lines)
                    ELSE gated)
        OfLines(lines) == AfterGated(lines, GatedPass(PassStart, lines))
    IN IF ByteLen(Trim(text)) < MinTextLen THEN [ok |-> FALSE]
       ELSE OfLines(Lines(text, 1))

\* Variant: the category context of the first loop kept when the second
\* loop starts
PreviewPdfOfKeptContext(text, limit) ==
    LET Preview(lines, pass) ==
            [ok |-> TRUE,
             transactions |-> Take(pass.transactions, limit),
             total_rows |-> Len(pass.transactions),
             detected |-> DetectFormat(text, lines),
             raw_text_sample |-> Take(text, SampleLen),
             confidence |-> Ratio(pass.valid_lines, pass.total_lines)]
        AfterGated(lines, gated) ==
            Preview(lines,
                    IF Len(gated.transactions) < MinGatedTransactions
                    THEN FallbackPass([PassStart EXCEPT
                                          !.current_category = gated.current_category],
                                      lines)
                    ELSE gated)
        OfLines(lines) == AfterGated(lines, GatedPass(PassStart, lines))
    IN IF ByteLen(Trim(text)) < MinTextLen THEN [ok |-> FALSE]
       ELSE OfLines(Lines(text, 1))

\* pdf_parser.rs preview_pdf, of the text extract_text returned
PreviewPdf(text, limit) ==
    LET Preview(lines, pass) ==
            [ok |-> TRUE,
             transactions |-> Take(pass.transactions, limit),
             total_rows |-> Len(pass.transactions),
             detected |-> DetectFormat(text, lines),
             raw_text_sample |-> Take(text, SampleLen),
             confidence |-> Ratio(pass.valid_lines, pass.total_lines)]
        AfterGated(lines, gated) ==
            Preview(lines,
                    IF Len(gated.transactions) < MinGatedTransactions
                    THEN FallbackPass(PassStart, lines)
                    ELSE gated)
        OfLines(lines) == AfterGated(lines, GatedPass(PassStart, lines))
    IN IF ByteLen(Trim(text)) < MinTextLen THEN [ok |-> FALSE]
       ELSE OfLines(Lines(text, 1))

\* pdf_parser.rs parse_pdf
ParsePdf(text) ==
    LET OfPreview(preview) ==
            IF preview.ok THEN [ok |-> TRUE, transactions |-> preview.transactions]
            ELSE [ok |-> FALSE]
    IN OfPreview(PreviewPdf(text, UsizeMax))


-----------------------------------------------------------------------------
(* Tabular parser: import/csv_parser.rs                                    *)

\* str::parse::<f64>() followed by (f * 100.0).round() as i64, for a text of
\* an optional sign, digits and at most two digits after a point; None where
\* the parse fails
SignedCents(s) ==
    LET Signed(negative, c) ==
            IF c = None THEN None ELSE Some(IF negative THEN -c[1] ELSE c[1])
    IN Signed(s # <<>> /\ s[1] = "-",
              DecimalCents(IF s # <<>> /\ s[1] \in {"-", "+"} THEN Tail(s) ELSE s))

\* str::replace(from, to) for a one-character pattern
ReplaceChar(s, from, to) == [i \in 1..Len(s) |-> IF s[i] = from THEN to ELSE s[i]]

\* csv_parser.rs parse_amount
CsvParseAmount(s) ==
    LET OfCents(cleaned, cents) == IF cleaned = <<>> \/ cents = None THEN 0 ELSE cents[1]
        OfCleaned(cleaned) == OfCents(cleaned, SignedCents(cleaned))
    IN OfCleaned(Trim(Without(ReplaceChar(Without(Trim(s), {"$", ","}), "(", "-"), {")"})))

\* The number of days of month m of year y (chrono::NaiveDate validity)
DaysInMonth(y, m) ==
    IF m \in {4, 6, 9, 11} THEN 30
    ELSE IF m # 2 THEN 31
    ELSE IF y % 4 = 0 /\ (y % 100 # 0 \/ y % 400 = 0) THEN 29 ELSE 28

\* One step of chrono::NaiveDate::parse_from_str: the text from position pos
\* against the format from position f, with the fields parsed so far; %Y
\* takes up to four digits, %m, %d and %y up to two, after optional
\* whitespace; any other character of the format matches itself
RECURSIVE ParseFromStrAt(_, _, _, _, _)
ParseFromStrAt(text, pos, fmt, f, got) ==
    IF f > Len(fmt)
    THEN IF /\ pos = Len(text) + 1
            /\ got.y >= 0 /\ got.m >= 1 /\ got.m <= 12
            /\ got.d >= 1 /\ got.d <= DaysInMonth(got.y, got.m)
         THEN Some(<<got.y, got.m, got.d>>)
         ELSE None
    ELSE IF fmt[f] = "%" /\ f < Len(fmt) /\ fmt[f + 1] \in {"Y", "m", "d", "y"}
    THEN LET RECURSIVE Blank(_)
             Blank(p) == IF p <= Len(text) /\ text[p] \in Whitespace THEN 1 + Blank(p + 1) ELSE 0
             from == pos + Blank(pos)
             width == IF fmt[f + 1] = "Y" THEN 4 ELSE 2
             run == DigitRun(text, from)
             n == IF run > width THEN width ELSE run
             v == DigitsValue(SubSeq(text, from, from + n - 1))
         IN IF n = 0 THEN None
            ELSE ParseFromStrAt(text, from + n, fmt, f + 2,
                     CASE fmt[f + 1] = "Y" -> [got EXCEPT !.y = v]
                       [] fmt[f + 1] = "y" -> [got EXCEPT !.y = IF v < 70 THEN 2000 + v ELSE 1900 + v]
                       [] fmt[f + 1] = "m" -> [got EXCEPT !.m = v]
                       [] OTHER -> [got EXCEPT !.d = v])
    ELSE IF pos <= Len(text) /\ text[pos] = fmt[f]
    THEN ParseFromStrAt(text, pos + 1, fmt, f + 1, got)
    ELSE None

\* chrono::NaiveDate::parse_from_str(text, fmt): the date as <<year, month,
\* day>>, which format("%Y-%m-%d") prints
ParseFromStr(text, fmt) == ParseFromStrAt(text, 1, fmt, 1, [y |-> -1, m |-> -1, d |-> -1])

\* csv_parser.rs parse_date: the formats tried when the mapping names none
CommonFormats == << <<"%", "Y", "-", "%", "m", "-", "%", "d">>,
                   <<"%", "m", "/", "%", "d", "/", "%", "Y">>,
                   <<"%", "m", "/", "%", "d", "/", "%", "y">>,
                   <<"%", "d", "/", "%", "m", "/", "%", "Y">>,
                   <<"%", "Y", "/", "%", "m", "/", "%", "d">>,
                   <<"%", "m", "-", "%", "d", "-", "%", "Y">>,
                   <<"%", "d", "-", "%", "m", "-", "%", "Y">> >>

\* csv_parser.rs parse_date: None is the validation error
CsvParseDate(s, format) ==
    LET trimmed == Trim(s)
        formats == IF format = <<>> THEN CommonFormats ELSE <<format>>
        parsing == { i \in 1..Len(formats) : ParseFromStr(trimmed, formats[i]) # None }
    IN IF trimmed = <<>> \/ parsing = {} THEN None
       ELSE ParseFromStr(trimmed, formats[CHOOSE i \in parsing : \A j \in parsing : i <= j])

\* fields.get(col).unwrap_or(&"")
FieldAt(fields, col) == IF col + 1 <= Len(fields) THEN fields[col + 1] ELSE <<>>

\* column.and_then(|col| fields.get(col)).map(trim).filter(non-empty)
OptionalField(fields, column) ==
    IF column = None \/ column[1] + 1 > Len(fields) \/ Trim(fields[column[1] + 1]) = <<>>
    THEN None
    ELSE Some(Trim(fields[column[1] + 1]))

\* csv_parser.rs parse_csv: the amount of one record
CsvAmount(fields, mapping) ==
    IF mapping.debit_column # None /\ mapping.credit_column # None
    THEN CsvParseAmount(FieldAt(fields, mapping.credit_column[1]))
         - CsvParseAmount(FieldAt(fields, mapping.debit_column[1]))
    ELSE IF mapping.invert_amounts
    THEN -CsvParseAmount(FieldAt(fields, mapping.amount_column))
    ELSE CsvParseAmount(FieldAt(fields, mapping.amount_column))

\* csv_parser.rs parse_csv: raw_data, the value of each header among the
\* fields of the record (the last of the columns that share a header)
RawData(headers, fields) ==
    LET cols == { i \in 1..Len(headers) : i <= Len(fields) }
    IN [h \in { headers[i] : i \in cols } |->
           fields[CHOOSE i \in cols : headers[i] = h /\ \A j \in cols : headers[j] = h => j <= i]]

\* csv_parser.rs parse_csv: the ParsedTransaction of one readable record
ParsedTransaction(headers, fields, mapping) ==
    [date |-> CsvParseDate(FieldAt(fields, mapping.date_column), mapping.date_format)[1],
     amount |-> CsvAmount(fields, mapping),
     payee |-> OptionalField(fields, mapping.payee_column),
     memo |-> OptionalField(fields, mapping.memo_column),
     category_hint |-> OptionalField(fields, mapping.category_column),
     raw_data |-> RawData(headers, fields)]

\* csv_parser.rs parse_csv over the file the reader yields: a header record
\* and the data records, each readable (ok) or not; the first unreadable
\* record or failing date ends the call with the error
ParseCsv(file, mapping) ==
    LET failing == { i \in 1..Len(file.records) :
                        \/ ~file.records[i].ok
                        \/ CsvParseDate(FieldAt(file.records[i].fields, mapping.date_column),
                                        mapping.date_format) = None }
    IN IF ~file.header.ok \/ failing # {} THEN [ok |-> FALSE]
       ELSE [ok |-> TRUE,
             transactions |-> [i \in 1..Len(file.records) |->
                 ParsedTransaction(file.header.fields, file.records[i].fields, mapping)]]

\* csv_parser.rs preview_csv: the loop over reader.records()
RECURSIVE PreviewRows(_, _, _)
PreviewRows(records, max_rows, rows) ==
    IF records = <<>> THEN rows
    ELSE PreviewRows(Tail(records), max_rows,
                     IF Len(rows) < max_rows /\ records[1].ok
                     THEN Append(rows, records[1].fields) ELSE rows)

\* preview_csv whose total counts the readable records only
PreviewCsvOfReadableTotal(file, max_rows) ==
    IF ~file.header.ok THEN [ok |-> FALSE]
    ELSE [ok |-> TRUE,
          headers |-> file.header.fields,
          rows |-> PreviewRows(file.records, max_rows, <<>>),
          total_rows |-> Len(SelectSeq(file.records, LAMBDA r : r.ok))]

\* csv_parser.rs preview_csv
PreviewCsv(file, max_rows) ==
    IF ~file.header.ok THEN [ok |-> FALSE]
    ELSE [ok |-> TRUE,
          headers |-> file.header.fields,
          rows |-> PreviewRows(file.records, max_rows, <<>>),
          total_rows |-> Len(file.records)]

\* The records of the drawn files: a record the reader cannot read, and
\* readable ones with the columns date, amount, debit, credit, payee
Unreadable == [ok |-> FALSE, fields |-> <<>>]

Readable(fields) == [ok |-> TRUE, fields |-> fields]

CsvHeader == Readable(<<<<"D", "a", "t", "e">>, <<"A", "m", "o", "u", "n", "t">>, <<"D", "e", "b", "i", "t">>, <<"C", "r", "e", "d", "i", "t">>, <<"P", "a", "y", "e", "e">>>>)

IsoRow == Readable(<<<<"2", "0", "2", "5", "-", "0", "1", "-", "1", "5">>, <<"-", "5", "0", ".", "2", "5">>, <<"5", "0", ".", "2", "5">>, <<>>, <<"C", "o", "f", "f", "e", "e">>>>)

SlashRow == Readable(<<<<"0", "1", "/", "1", "6", "/", "2", "0", "2", "5">>, <<"$", "1", ",", "2", "3", "4", ".", "5", "6">>, <<>>, <<"1", ",", "2", "3", "4", ".", "5", "6">>, <<" ", "P", "a", "y", "r", "o", "l", "l", " ">>>>)

BothRow == Readable(<<<<"1", "6", "/", "0", "1", "/", "2", "0", "2", "5">>, <<"(", "1", "0", "0", ".", "0", "0", ")">>, <<"1", "2", "0", ".", "0", "0">>, <<"2", "0", ".", "0", "0">>, <<>>>>)

EmptyDateRow == Readable(<<<<>>, <<"5", ".", "0", "0">>, <<"5", ".", "0", "0">>, <<>>, <<"T", "e", "a">>>>)

BadDateRow == Readable(<<<<"n", "/", "a">>, <<"a", "b", "c">>, <<>>, <<>>, <<"V", "o", "i", "d">>>>)

ShortRow == Readable(<<<<"2", "0", "2", "5", "-", "0", "2", "-", "3", "0">>>>)

CsvRecords == { IsoRow, SlashRow, BothRow, EmptyDateRow, BadDateRow, ShortRow, Unreadable }

\* The records of the longer files
CoreCsvRecords == { IsoRow, BadDateRow, Unreadable }

ShortCsvLen == 2

MaxCsvRecords == 3

\* The files: a readable header and up to ShortCsvLen records of any kind or
\* up to MaxCsvRecords of the core records, and a file whose header cannot be
\* read
CsvFiles ==
    { [header |-> CsvHeader, records |-> r] :
        r \in UNION { SeqsOfLen(CsvRecords, n) : n \in 0..ShortCsvLen }
              \cup UNION { SeqsOfLen(CoreCsvRecords, n) : n \in (ShortCsvLen + 1)..MaxCsvRecords } }
    \cup { [header |-> Unreadable, records |-> <<IsoRow>>] }

\* The mappings parse_csv is called with: date in column 0, amount in column
\* 1, payee in column 4, and the debit and credit columns, the inversion and
\* the date format as drawn
ColumnMappings ==
    { [date_column |-> 0, amount_column |-> 1, debit_column |-> debit,
       credit_column |-> credit, payee_column |-> Some(4), memo_column |-> None,
       category_column |-> Some(7), date_format |-> format, invert_amounts |-> invert] :
      debit \in { None, Some(2) }, credit \in { None, Some(3) },
      format \in { <<>>, <<"%", "m", "/", "%", "d", "/", "%", "Y">> }, invert \in BOOLEAN }


-----------------------------------------------------------------------------
(* Bank statement parser: import/boa_parser.rs                             *)

\* boa_parser.rs parse_amount
BoaParseAmount(s) ==
    LET Minus(cleaned) == StartsWith(cleaned, <<"-">>)
        Parens(cleaned) ==
            ~Minus(cleaned) /\ StartsWith(cleaned, <<"(">>) /\ EndsWith(cleaned, <<")">>)
        NumberOf(cleaned) ==
            IF Minus(cleaned) THEN Tail(cleaned)
            ELSE IF Parens(cleaned) THEN SubSeq(cleaned, 2, Len(cleaned) - 1)
            ELSE cleaned
        Signed(cleaned, cents) ==
            IF cleaned = <<>> \/ cents = None THEN None
            ELSE Some(IF Minus(cleaned) \/ Parens(cleaned) THEN -cents[1] ELSE cents[1])
        OfCleaned(cleaned) == Signed(cleaned, SignedCents(NumberOf(cleaned)))
    IN OfCleaned(Without(Trim(s), {","}))

\* str::split(sep): the parts of s between the occurrences of sep
RECURSIVE Split(_, _)
Split(s, sep) ==
    LET at == { i \in 1..Len(s) : s[i] = sep }
    IN IF at = {} THEN <<s>>
       ELSE LET i == CHOOSE i \in at : \A j \in at : i <= j
            IN <<SubSeq(s, 1, i - 1)>> \o Split(SubSeq(s, i + 1, Len(s)), sep)

\* str::parse::<u32>() of texts short of overflow: an optional "+" and digits
ParseU32(s) ==
    LET digits == IF s # <<>> /\ s[1] = "+" THEN Tail(s) ELSE s
    IN IF digits # <<>> /\ DigitRun(digits, 1) = Len(digits) THEN Some(DigitsValue(digits))
       ELSE None

\* boa_parser.rs parse_date: the date as <<year, month, day>>, which the
\* format! prints; the numbers are not validated
BoaParseDate(s) ==
    LET OfNumbers(n) ==
            IF \E i \in 1..3 : n[i] = None THEN None
            ELSE Some(<<n[3][1], n[1][1], n[2][1]>>)
        OfParts(parts) ==
            IF Len(parts) # 3 THEN None
            ELSE OfNumbers([i \in 1..3 |-> ParseU32(parts[i])])
    IN OfParts(Split(Trim(s), "/"))

\* boa_parser.rs extract_numbers_from_end: the scan from the last character,
\* at position pos, with the number being read and the numbers found
RECURSIVE NumbersFrom(_, _, _, _)
NumbersFrom(line, pos, current, numbers) ==
    LET Pushed(amt) == IF amt = None THEN numbers ELSE Append(numbers, amt[1])
        After(found) ==
            IF pos = 0 THEN found
            ELSE IF Len(found) >= 2 THEN found
            ELSE NumbersFrom(line, pos - 1, <<>>, found)
    IN IF pos > 0 /\ line[pos] \in Digits \cup {".", ",", "-"}
       THEN NumbersFrom(line, pos - 1, <<line[pos]>> \o current, numbers)
       ELSE IF current # <<>> THEN After(Pushed(BoaParseAmount(current)))
       ELSE IF pos = 0 THEN numbers
       ELSE NumbersFrom(line, pos - 1, <<>>, numbers)

\* boa_parser.rs extract_numbers_from_end
ExtractNumbersFromEnd(line) ==
    LET Reversed(found) == [i \in 1..Len(found) |-> found[Len(found) + 1 - i]]
    IN Reversed(NumbersFrom(line, Len(line), <<>>, <<>>))

\* boa_parser.rs find_amount_start: the offset of the first run of three or
\* more spaces after offset 12 that a digit or a minus sign follows
FindAmountStart(line) ==
    LET RECURSIVE Spaces(_)
        Spaces(i) == IF i >= 13 /\ line[i] = " " THEN 1 + Spaces(i - 1) ELSE 0
        starts == { i \in 14..Len(line) : /\ line[i] \in Digits \cup {"-"}
                                          /\ Spaces(i - 1) >= 3 }
    IN IF starts = {} THEN ByteLen(line)
       ELSE LET i == CHOOSE i \in starts : \A j \in starts : i <= j
            IN (i - 1) - Spaces(i - 1)

MinBoaLineLen == 15

DateColumns == 10

DescriptionStart == 12

\* boa_parser.rs parse_transaction_line, for lines of one-byte characters
BoaParseTransactionLine(line) ==
    LET Description(desc_end) ==
            Trim(SubSeq(line, DescriptionStart + 1,
                        IF desc_end > DescriptionStart THEN desc_end ELSE Len(line)))
        Built(date, numbers) ==
            IF date = None \/ numbers = <<>> THEN None
            ELSE Some([date |-> date[1],
                       description |-> Description(FindAmountStart(line)),
                       amount |-> IF Len(numbers) >= 2 THEN numbers[Len(numbers) - 1]
                                  ELSE numbers[1],
                       running_balance |-> IF Len(numbers) >= 2
                                           THEN Some(numbers[Len(numbers)])
                                           ELSE None])
    IN IF ByteLen(line) < MinBoaLineLen THEN None
       ELSE Built(BoaParseDate(Trim(SubSeq(line, 1, DateColumns))),
                  ExtractNumbersFromEnd(line))

\* boa_parser.rs extract_summary_amount
ExtractSummaryAmount(line) ==
    LET l == Trim(line)
        RECURSIVE Start(_)
        Start(i) == IF i >= 1 /\ l[i] \notin Whitespace THEN Start(i - 1) ELSE i
    IN IF l = <<>> THEN None
       ELSE BoaParseAmount(SubSeq(l, Start(Len(l)) + 1, Len(l)))

BeginningPrefix == <<"B", "e", "g", "i", "n", "n", "i", "n", "g", " ", "b", "a", "l", "a", "n", "c", "e", " ", "a", "s", " ", "o", "f">>

EndingPrefix == <<"E", "n", "d", "i", "n", "g", " ", "b", "a", "l", "a", "n", "c", "e", " ", "a", "s", " ", "o", "f">>

\* The lines of the drawn statements
BoaHeaderLine == <<"D", "a", "t", "e", " ", " ", " ", " ", " ", " ", " ", " ", "D", "e", "s", "c", "r", "i", "p", "t", "i", "o", "n", " ", " ", " ", " ", " ", " ", " ", " ", " ", " ", " ", " ", " ", " ", " ", "A", "m", "o", "u", "n", "t", " ", " ", "R", "u", "n", "n", "i", "n", "g", " ", "B", "a", "l", ".">>

BoaSummaryLine == <<"B", "e", "g", "i", "n", "n", "i", "n", "g", " ", "b", "a", "l", "a", "n", "c", "e", " ", "a", "s", " ", "o", "f", " ", "0", "1", "/", "0", "1", "/", "2", "0", "2", "5", " ", " ", " ", " ", "7", ",", "7", "0", "3", ".", "7", "9">>

BoaEndingLine == <<"E", "n", "d", "i", "n", "g", " ", "b", "a", "l", "a", "n", "c", "e", " ", "a", "s", " ", "o", "f", " ", "0", "1", "/", "3", "1", "/", "2", "0", "2", "5", " ", " ", " ", " ", "7", ",", "0", "9", "8", ".", "2", "9">>

BoaRowLine == <<"0", "1", "/", "1", "5", "/", "2", "0", "2", "5", " ", " ", "C", "O", "F", "F", "E", "E", " ", "S", "H", "O", "P", " ", " ", " ", " ", " ", " ", " ", " ", " ", " ", " ", " ", " ", " ", " ", "-", "5", ".", "5", "0", " ", " ", " ", " ", " ", "7", ",", "6", "9", "8", ".", "2", "9">>

BoaDepositLine == <<"0", "1", "/", "1", "6", "/", "2", "0", "2", "5", " ", " ", "P", "A", "Y", "R", "O", "L", "L", " ", " ", " ", " ", " ", " ", " ", " ", " ", " ", " ", " ", " ", " ", " ", " ", "1", ",", "2", "8", "5", ".", "0", "0", " ", " ", " ", " ", " ", "8", ",", "9", "8", "3", ".", "2", "9">>

BoaOpeningLine == <<"0", "1", "/", "0", "1", "/", "2", "0", "2", "5", " ", " ", "B", "e", "g", "i", "n", "n", "i", "n", "g", " ", "b", "a", "l", "a", "n", "c", "e", " ", "a", "s", " ", "o", "f", " ", "0", "1", "/", "0", "1", "/", "2", "0", "2", "5", " ", " ", " ", " ", " ", " ", " ", " ", " ", " ", "7", ",", "7", "0", "3", ".", "7", "9">>

BoaLoneLine == <<"0", "1", "/", "2", "0", "/", "2", "0", "2", "5", " ", " ", "T", "R", "A", "N", "S", "F", "E", "R", " ", "O", "U", "T", " ", " ", " ", "-", "1", "0", "0", ".", "0", "0">>

BoaShortLine == <<"0", "1", "/", "2", "1", "/", "2", "0", "2", "5", " ", "X">>

\* A line with a date no calendar has and without amount
BoaBadDateLine == <<"1", "3", "/", "4", "5", "/", "2", "0", "2", "5", " ", " ", "P", "E", "N", "D", "I", "N", "G", " ", "I", "T", "E", "M">>

BoaNoteLine == <<"T", "o", "t", "a", "l", " ", "d", "e", "p", "o", "s", "i", "t", "s", " ", "a", "n", "d", " ", "o", "t", "h", "e", "r", " ", "a", "d", "d", "i", "t", "i", "o", "n", "s">>

BoaLines == { BoaHeaderLine, BoaSummaryLine, BoaEndingLine, BoaRowLine, BoaDepositLine,
              BoaOpeningLine, BoaLoneLine, BoaShortLine, BoaNoteLine, EmptyLine,
              BoaBadDateLine }

\* The lines of the longer statements
CoreBoaLines == { BoaHeaderLine, BoaRowLine, BoaDepositLine, BoaOpeningLine, BoaLoneLine }

MaxBoaLines == 4

\* The statements: up to two lines of any kind, up to MaxBoaLines of the
\* core lines
BoaTexts ==
    { JoinLines(body) :
        body \in UNION { SeqsOfLen(BoaLines, n) : n \in 0..2 }
                 \cup UNION { SeqsOfLen(CoreBoaLines, n) : n \in 3..MaxBoaLines } }

\* parse_transaction_line, computed once for every line of the drawn
\* statements
BoaLineFacts == [l \in BoaLines |-> BoaParseTransactionLine(l)]

\* parse_transaction_line(line)
BoaFactsOf(line) ==
    IF line \in BoaLines THEN BoaLineFacts[line] ELSE BoaParseTransactionLine(line)

\* The state of the loop of preview_boa before its first line
BoaPassStart ==
    [transactions |-> <<>>, beginning_balance |-> None, ending_balance |-> None,
     in_transactions |-> FALSE]

\* The body of the loop of preview_boa, for one line
BoaStep(s, line) ==
    LET Rows(trimmed, balances, tx) ==
            IF /\ StartsWith(trimmed, <<"D", "a", "t", "e">>)
               /\ Contains(trimmed, <<"D", "e", "s", "c", "r", "i", "p", "t", "i", "o", "n">>)
               /\ Contains(trimmed, <<"A", "m", "o", "u", "n", "t">>)
            THEN [balances EXCEPT !.in_transactions = TRUE]
            ELSE IF ~balances.in_transactions \/ trimmed = <<>> \/ tx = None THEN balances
            ELSE IF Contains(tx[1].description,
                             <<"B", "e", "g", "i", "n", "n", "i", "n", "g", " ",
                               "b", "a", "l", "a", "n", "c", "e">>)
                 THEN balances
            ELSE [balances EXCEPT !.transactions = Append(@, tx[1])]
        Balances(trimmed, amt) ==
            IF StartsWith(trimmed, BeginningPrefix)
            THEN (IF amt # None THEN [s EXCEPT !.beginning_balance = amt] ELSE s)
            ELSE IF StartsWith(trimmed, EndingPrefix) /\ amt # None
                 THEN [s EXCEPT !.ending_balance = amt]
            ELSE s
        OfTrimmed(trimmed) ==
            Rows(trimmed, Balances(trimmed, ExtractSummaryAmount(trimmed)), BoaFactsOf(line))
    IN OfTrimmed(Trim(line))

\* boa_parser.rs preview_boa: the loop over content.lines()
RECURSIVE BoaPass(_, _)
BoaPass(s, lines) ==
    IF lines = <<>> THEN s
    ELSE BoaPass(BoaStep(s, lines[1]), Tail(lines))

\* boa_parser.rs preview_boa
PreviewBoa(content, limit) ==
    LET Preview(s) ==
            [ok |-> TRUE,
             transactions |-> Take(s.transactions, limit),
             total_rows |-> Len(s.transactions),
             beginning_balance |-> s.beginning_balance,
             ending_balance |-> s.ending_balance]
    IN Preview(BoaPass(BoaPassStart, Lines(content, 1)))

\* boa_parser.rs parse_boa
ParseBoa(content) ==
    [ok |-> TRUE, transactions |-> PreviewBoa(content, UsizeMax).transactions]

-----------------------------------------------------------------------------
(* Inputs of the ledger specification *)

Pab == <<"a", "b">>

\* The ParsedTransactions a batch is drawn from: one with a payee, one like it
\* without a payee, one of another date and amount that carries a category
\* hint, and one that names a category that does not exist
Items == { Parsed(1, 5, Some(Pab), None, None),
           Parsed(1, 5, None, None, None),
           Parsed(2, -3, Some(Pab), None, Some(<<"F", "O">>)),
           Parsed(2, 5, None, Some("cX"), None) }

RECURSIVE SeqsUpTo(_, _)
SeqsUpTo(S, n) == IF n = 0 THEN { <<>> }
                  ELSE LET shorter == SeqsUpTo(S, n - 1)
                       IN shorter \cup { Append(q, x) : q \in shorter, x \in S }

Batches == SeqsUpTo(Items, MaxBatch)

OpeningBalances == {0, 7}

\* The rule table of the ledger specification
LedgerRules == << Rule("c1", "payee_contains", <<"A">>, None, None, None, 1, TRUE) >>

-----------------------------------------------------------------------------
(* The database: db/connection.rs                                          *)

\* The password the database file of the other specifications was made with
Password == "pw"

\* A Database that holds a connection to its file
UnlockedDatabase == [conn |-> TRUE, key |-> Some(Password)]

\* Variant: a connection is handed out whenever the file exists
GetConnectionOfFile(db) == IsSome(db.key)

\* connection.rs:90-92 get_connection: self.conn.as_ref().ok_or(NotUnlocked),
\* TRUE where it is Ok
GetConnection(db) == db.conn

\* `let conn = database.get_connection()?;` of a command on a Database
\* without connection: the command returns the error before any statement
NotUnlocked(op) ==
    /\ last' = [op |-> op, ok |-> FALSE, error |-> "NotUnlocked",
                after |-> IF last.op = "unlock_database" THEN <<last.op, last.result>>
                          ELSE <<last.op>>]
    /\ tick' = 1 - tick
    /\ UNCHANGED <<accounts, transactions, rules, redeleted, document, database, mutex, calls>>

-----------------------------------------------------------------------------
(* Commands *)

\* accounts.rs create_account: a new row under a new id
CreateAccount(id, balance) ==
    IF ~GetConnection(database) THEN NotUnlocked("create_account") ELSE
    /\ ~accounts[id].exists
    /\ id = "a2" => accounts["a1"].exists
    /\ accounts' = [accounts EXCEPT ![id] = [exists |-> TRUE, deleted |-> FALSE,
                                             current_balance |-> balance]]
    /\ last' = [op |-> "create_account", account_id |-> id]
    /\ tick' = 1 - tick
    /\ UNCHANGED <<document, database, mutex, calls>>
    /\ UNCHANGED <<transactions, rules, redeleted>>

\* import.rs import_transactions
ImportTransactions(account_id, batch) ==
    IF ~GetConnection(database) THEN NotUnlocked("import_transactions") ELSE
    /\ LET batch_id == NewUuid({ transactions[i].import_batch_id : i \in TxIds(transactions) })
           loop == ImportLoop(transactions, accounts, account_id, batch, batch_id,
                              [imported |-> 0, skipped |-> 0, ids |-> <<>>])
       IN /\ Len(loop.txs) <= MaxTx
          /\ IF ~loop.ok
             THEN /\ transactions' = loop.txs
                  /\ accounts' = accounts
                  /\ last' = [op |-> "import_transactions", ok |-> FALSE,
                              account_id |-> account_id, batch |-> batch]
             ELSE \E r \in ApplyCategoryRulesInternal(loop.txs, rules, Some(loop.ids)) :
                  /\ transactions' = r.txs
                  /\ accounts' = UpdateAccountBalance(accounts, loop.txs, account_id)
                  /\ last' = [op |-> "import_transactions", ok |-> TRUE,
                              account_id |-> account_id, batch |-> batch,
                              balance_before |-> CurrentBalance(accounts, account_id),
                              imported |-> loop.imported, skipped |-> loop.skipped,
                              categorized |-> r.count, batch_id |-> batch_id,
                              before |-> loop.txs, ids |-> Some(loop.ids)]
    /\ tick' = 1 - tick
    /\ UNCHANGED <<document, database, mutex, calls>>
    /\ UNCHANGED <<rules, redeleted>>

\* transactions.rs delete_transactions, one id after the other; an id with no
\* row makes query_row fail and `?` return, keeping what was done before it
RECURSIVE DeleteLoop(_, _, _)
DeleteLoop(txs, accts, ids) ==
    IF ids = <<>> THEN [ok |-> TRUE, txs |-> txs, accts |-> accts]
    ELSE LET id == Head(ids) IN
         IF id \notin TxIds(txs) THEN [ok |-> FALSE, txs |-> txs, accts |-> accts]
         ELSE LET account_id == txs[id].account_id
                  amount == txs[id].amount
              IN DeleteLoop([txs EXCEPT ![id].deleted = TRUE],
                            IF account_id \in AccountIds /\ accts[account_id].exists
                            THEN [accts EXCEPT ![account_id].current_balance = @ - amount]
                            ELSE accts,
                            Tail(ids))

\* delete_transactions where at most `max` calls in a behaviour name a row that
\* is deleted already
DeleteTransactionsWithin(ids, max) ==
    IF ~GetConnection(database) THEN NotUnlocked("delete_transactions") ELSE
    /\ \A k \in 1..Len(ids) : ids[k] \in TxIds(transactions) /\ transactions[ids[k]].deleted
                               => redeleted < max
    /\ redeleted' = IF \E k \in 1..Len(ids) :
                         ids[k] \in TxIds(transactions) /\ transactions[ids[k]].deleted
                    THEN redeleted + 1 ELSE redeleted
    /\ LET r == DeleteLoop(transactions, accounts, ids)
       IN /\ transactions' = r.txs
          /\ accounts' = r.accts
          /\ last' = [op |-> "delete_transactions", ok |-> r.ok]
    /\ tick' = 1 - tick
    /\ UNCHANGED <<document, database, mutex, calls>>
    /\ UNCHANGED rules

DeleteTransactions(ids) == DeleteTransactionsWithin(ids, MaxRedelete)

\* rules.rs apply_category_rules, over all rows (ids = None) or the given ids
ApplyCategoryRules(ids) ==
    IF ~GetConnection(database) THEN NotUnlocked("apply_category_rules") ELSE
    /\ \E r \in ApplyCategoryRulesCommand(transactions, rules, ids) :
         /\ transactions' = r.txs
         /\ last' = [op |-> "apply_category_rules", ok |-> TRUE, ids |-> ids,
                     before |-> transactions, count |-> r.count]
    /\ tick' = 1 - tick
    /\ UNCHANGED <<document, database, mutex, calls>>
    /\ UNCHANGED <<accounts, rules, redeleted>>

\* transactions.rs detect_transfers: reads only; in a build with overflow
\* checks the negation of i64::MIN panics and the command returns nothing
DetectTransfers ==
    IF ~GetConnection(database) THEN NotUnlocked("detect_transfers") ELSE
    /\ \E order \in QueryOrders(transactions, UnlinkedRecent(transactions)) :
         \/ /\ NegationOverflows(transactions, order)
            /\ last' = [op |-> "detect_transfers", ok |-> FALSE]
         \/ last' = [op |-> "detect_transfers", ok |-> TRUE,
                     result |-> Take(SortByConfidence(OuterLoop(transactions, order, <<>>)),
                                     MaxCandidates)]
    /\ tick' = 1 - tick
    /\ UNCHANGED <<document, database, mutex, calls>>
    /\ UNCHANGED <<accounts, transactions, rules, redeleted>>

\* transactions.rs link_transfer: fails, changing nothing, when either id has
\* no row
LinkTransfer(a, b) ==
    IF ~GetConnection(database) THEN NotUnlocked("link_transfer") ELSE
    /\ IF a \in TxIds(transactions) /\ b \in TxIds(transactions)
       THEN LET transfer_id == NewUuid({ transactions[i].transfer_id : i \in TxIds(transactions) })
                account_a == transactions[a].account_id
                account_b == transactions[b].account_id
                after_a == [transactions EXCEPT ![a].transfer_id = Some(transfer_id),
                                                ![a].transfer_account_id = Some(account_b)]
            IN /\ transactions' = [after_a EXCEPT ![b].transfer_id = Some(transfer_id),
                                                  ![b].transfer_account_id = Some(account_a)]
               /\ last' = [op |-> "link_transfer", ok |-> TRUE, a |-> a, b |-> b,
                           transfer_id |-> transfer_id]
       ELSE /\ transactions' = transactions
            /\ last' = [op |-> "link_transfer", ok |-> FALSE, a |-> a, b |-> b]
    /\ tick' = 1 - tick
    /\ UNCHANGED <<document, database, mutex, calls>>
    /\ UNCHANGED <<accounts, rules, redeleted>>

\* Variant: the fields cleared on the given transaction alone
ClearTransferOfOne(txs, id) ==
    [txs EXCEPT ![id].transfer_id = None, ![id].transfer_account_id = None]

\* UPDATE transactions SET transfer_id = NULL, transfer_account_id = NULL
\* WHERE transfer_id = ?2, with the transfer id of the transaction `id`
ClearTransfer(txs, id) ==
    [i \in TxIds(txs) |->
       IF txs[i].transfer_id = txs[id].transfer_id
       THEN [txs[i] EXCEPT !.transfer_id = None, !.transfer_account_id = None]
       ELSE txs[i]]

\* transactions.rs unlink_transfer: fails when the id has no row
UnlinkTransfer(id) ==
    IF ~GetConnection(database) THEN NotUnlocked("unlink_transfer") ELSE
    /\ IF id \in TxIds(transactions)
       THEN /\ transactions' = IF IsSome(transactions[id].transfer_id)
                               THEN ClearTransfer(transactions, id)
                               ELSE transactions
            /\ last' = [op |-> "unlink_transfer", ok |-> TRUE, id |-> id,
                        previous |-> IF last.op = "link_transfer" THEN Some(last) ELSE None]
       ELSE /\ transactions' = transactions
            /\ last' = [op |-> "unlink_transfer", ok |-> FALSE, id |-> id]
    /\ tick' = 1 - tick
    /\ UNCHANGED <<document, database, mutex, calls>>
    /\ UNCHANGED <<accounts, rules, redeleted>>

\* recurring.rs detect_recurring_transactions: reads only
DetectRecurringTransactions ==
    IF ~GetConnection(database) THEN NotUnlocked("detect_recurring_transactions") ELSE
    /\ \E out \in DetectRecurring(transactions, accounts) :
         last' = [op |-> "detect_recurring_transactions", ok |-> out.ok,
                  detected |-> out.detected]
    /\ tick' = 1 - tick
    /\ UNCHANGED <<document, database, mutex, calls>>
    /\ UNCHANGED <<accounts, transactions, rules, redeleted>>

\* The file the path names is missing or of the kind the parser is for
FileFor(kind) == IF document = None THEN TRUE ELSE document[1].kind = kind

\* pdf_parser.rs preview_pdf: extract_text fails where the file is missing
PreviewPdfFile(limit) ==
    /\ FileFor("pdf")
    /\ last' = [op |-> "preview_pdf", limit |-> limit,
                result |-> IF document = None THEN [ok |-> FALSE]
                           ELSE PreviewPdf(document[1].text, limit)]
    /\ tick' = 1 - tick
    /\ UNCHANGED <<accounts, transactions, rules, redeleted, document, database, mutex, calls>>

\* pdf_parser.rs parse_pdf
ParsePdfFile ==
    /\ FileFor("pdf")
    /\ last' = [op |-> "parse_pdf",
                result |-> IF document = None THEN [ok |-> FALSE]
                           ELSE ParsePdf(document[1].text)]
    /\ tick' = 1 - tick
    /\ UNCHANGED <<accounts, transactions, rules, redeleted, document, database, mutex, calls>>

\* pdf_parser.rs parse_amount, applied to a token
ParseAmountToken ==
    /\ ~FileFor("pdf")
    /\ document[1].kind = "token"
    /\ last' = [op |-> "parse_amount", result |-> PdfParseAmount(document[1].text)]
    /\ tick' = 1 - tick
    /\ UNCHANGED <<accounts, transactions, rules, redeleted, document, database, mutex, calls>>

\* import.rs parse_csv_file: csv_parser.rs parse_csv; the reader fails where
\* the file is missing
ParseCsvFile(mapping) ==
    /\ FileFor("csv")
    /\ last' = [op |-> "parse_csv", mapping |-> mapping,
                result |-> IF document = None THEN [ok |-> FALSE]
                           ELSE ParseCsv(document[1].file, mapping)]
    /\ tick' = 1 - tick
    /\ UNCHANGED <<accounts, transactions, rules, redeleted, document, database, mutex, calls>>

\* csv_parser.rs preview_csv (import.rs preview_csv_file passes 10)
PreviewCsvFile(max_rows) ==
    /\ FileFor("csv")
    /\ last' = [op |-> "preview_csv", limit |-> max_rows,
                result |-> IF document = None THEN [ok |-> FALSE]
                           ELSE PreviewCsv(document[1].file, max_rows)]
    /\ tick' = 1 - tick
    /\ UNCHANGED <<accounts, transactions, rules, redeleted, document, database, mutex, calls>>

\* import.rs preview_boa_file: boa_parser.rs preview_boa; read_to_string fails
\* where the file is missing
PreviewBoaFile(limit) ==
    /\ FileFor("boa")
    /\ last' = [op |-> "preview_boa", limit |-> limit,
                result |-> IF document = None THEN [ok |-> FALSE]
                           ELSE PreviewBoa(document[1].text, limit)]
    /\ tick' = 1 - tick
    /\ UNCHANGED <<accounts, transactions, rules, redeleted, document, database, mutex, calls>>

\* import.rs parse_boa_file: boa_parser.rs parse_boa
ParseBoaFile ==
    /\ FileFor("boa")
    /\ last' = [op |-> "parse_boa",
                result |-> IF document = None THEN [ok |-> FALSE]
                           ELSE ParseBoa(document[1].text)]
    /\ tick' = 1 - tick
    /\ UNCHANGED <<accounts, transactions, rules, redeleted, document, database, mutex, calls>>

\* accounts.rs delete_account: deleted_at is set on the account row, if there
\* is one; no other table is written
DeleteAccount(id) ==
    IF ~GetConnection(database) THEN NotUnlocked("delete_account") ELSE
    /\ accounts' = IF id \in AccountIds /\ accounts[id].exists
                   THEN [accounts EXCEPT ![id].deleted = TRUE]
                   ELSE accounts
    /\ last' = [op |-> "delete_account", ok |-> TRUE, account_id |-> id]
    /\ tick' = 1 - tick
    /\ UNCHANGED <<transactions, rules, redeleted, document, database, mutex, calls>>

\* transactions.rs create_transaction, run from its lock() to its return with
\* no other command in between: the INSERT, the balance UPDATE and the
\* read-back of get_transaction
CreateTransaction(account_id, date, amount, payee) ==
    IF ~GetConnection(database) THEN NotUnlocked("create_transaction") ELSE
    /\ Len(transactions) < MaxTx
    /\ IF ~StorageAcceptsInsert(accounts, account_id, None)
       THEN /\ UNCHANGED <<accounts, transactions>>
            /\ last' = [op |-> "create_transaction", ok |-> FALSE, account_id |-> account_id]
       ELSE /\ transactions' = Append(transactions,
                                      Row(account_id, date, amount, payee, None, None))
            /\ accounts' = [accounts EXCEPT ![account_id].current_balance = @ + amount]
            /\ last' = [op |-> "create_transaction", ok |-> TRUE, account_id |-> account_id,
                        id |-> Len(transactions) + 1,
                        record |-> Row(account_id, date, amount, payee, None, None)]
    /\ tick' = 1 - tick
    /\ UNCHANGED <<rules, redeleted, document, database, mutex, calls>>

\* Commands in flight.  A call is a command a thread of the invoke handler
\* runs, statement by statement: pc names the statement it is at, k the
\* element of the batch the import loop is at, inserted the ids of the rows
\* it has inserted (or the live row it has updated).  db.lock() blocks while another call holds the mutex;
\* the guard is released where it is dropped, at the latest on return.
Call(op, account_id, batch, ids) ==
    [op |-> op, account_id |-> account_id, batch |-> batch, ids |-> ids, pc |-> "lock",
     k |-> 1, imported |-> 0, skipped |-> 0, inserted |-> <<>>, result |-> None]

\* tauri invokes a command: a new call, before its lock()
Invoke(op, account_id, batch, ids) ==
    /\ Len(calls) < MaxCalls
    /\ calls' = Append(calls, Call(op, account_id, batch, ids))
    /\ UNCHANGED <<accounts, transactions, rules, redeleted, last, tick, document, database, mutex>>

\* The statement after db.lock() and get_connection()
AfterLock(call) ==
    IF call.pc = "relock" THEN "read"
    ELSE IF call.op = "import_transactions"
    THEN (IF call.batch = <<>> THEN "balance" ELSE "check")
    ELSE IF call.op = "create_transaction" THEN "insert"
    ELSE IF call.op = "update_transaction" THEN "select"
    ELSE "delete"

\* db.lock().unwrap(): import.rs:32, transactions.rs:146, 207, 264 and, in
\* get_transaction, 97
Lock(c) ==
    /\ calls[c].pc \in {"lock", "relock"}
    /\ mutex = None
    /\ mutex' = Some(c)
    /\ calls' = [calls EXCEPT ![c].pc = AfterLock(calls[c])]
    /\ UNCHANGED <<accounts, transactions, rules, redeleted, last, tick, document, database>>

\* The call returns: its guard, if it holds one, is dropped
Return(c, call, result) ==
    /\ calls' = [calls EXCEPT ![c] = [call EXCEPT !.pc = "done", !.result = Some(result)]]
    /\ mutex' = IF mutex = Some(c) THEN None ELSE mutex
    /\ last' = [op |-> call.op, call |-> c, result |-> result]
    /\ tick' = 1 - tick

\* The statement of the import loop after element k
AfterElement(call) == IF call.k < Len(call.batch) THEN "check" ELSE "balance"

\* import.rs:77-93: the duplicate query for element k of the batch
ImportCheck(c) ==
    /\ calls[c].op = "import_transactions" /\ calls[c].pc = "check"
    /\ calls' = [calls EXCEPT ![c] =
         IF \E i \in TxIds(transactions) :
               IsDuplicate(transactions[i], calls[c].account_id, calls[c].batch[calls[c].k])
         THEN [@ EXCEPT !.skipped = @ + 1, !.k = @ + 1, !.pc = AfterElement(calls[c])]
         ELSE [@ EXCEPT !.pc = "insert"]]
    /\ UNCHANGED <<accounts, transactions, rules, redeleted, last, tick, document, database, mutex>>

\* import.rs:95-114: the INSERT of element k, whose error returns; the batch
\* id (Uuid::new_v4) is the number of the call, which no other call's rows
\* carry
ImportInsert(c) ==
    /\ calls[c].op = "import_transactions" /\ calls[c].pc = "insert"
    /\ LET call == calls[c]
           tx == call.batch[call.k]
       IN IF ~StorageAcceptsInsert(accounts, call.account_id, ResolveCategory(tx))
          THEN /\ Return(c, call, [ok |-> FALSE])
               /\ UNCHANGED <<accounts, transactions, rules, redeleted, document, database>>
          ELSE /\ transactions' = Append(transactions,
                     Row(call.account_id, tx.date, tx.amount, tx.payee,
                         ResolveCategory(tx), Some(c)))
               /\ calls' = [calls EXCEPT ![c] =
                     [call EXCEPT !.imported = @ + 1, !.k = @ + 1,
                                  !.inserted = Append(@, Len(transactions) + 1),
                                  !.pc = AfterElement(call)]]
               /\ UNCHANGED <<accounts, rules, redeleted, last, tick, document, database, mutex>>

\* import.rs:118: update_account_balance
ImportBalance(c) ==
    /\ calls[c].op = "import_transactions" /\ calls[c].pc = "balance"
    /\ accounts' = UpdateAccountBalance(accounts, transactions, calls[c].account_id)
    /\ calls' = [calls EXCEPT ![c].pc = "rules"]
    /\ UNCHANGED <<transactions, rules, redeleted, last, tick, document, database, mutex>>

\* import.rs:121-129: apply_category_rules_internal and the return
ImportReturn(c) ==
    /\ calls[c].op = "import_transactions" /\ calls[c].pc = "rules"
    /\ \E r \in ApplyCategoryRulesInternal(transactions, rules, Some(calls[c].inserted)) :
         /\ transactions' = r.txs
         /\ Return(c, calls[c], [ok |-> TRUE, imported |-> calls[c].imported,
                                 skipped |-> calls[c].skipped, categorized |-> r.count])
    /\ UNCHANGED <<accounts, rules, redeleted, document, database>>

\* transactions.rs:152-186: the INSERT of create_transaction, whose error
\* returns
CreateInsert(c) ==
    /\ calls[c].op = "create_transaction" /\ calls[c].pc = "insert"
    /\ LET call == calls[c]
           data == call.batch[1]
       IN IF ~StorageAcceptsInsert(accounts, call.account_id, data.categoryId)
          THEN /\ Return(c, call, [ok |-> FALSE])
               /\ UNCHANGED <<accounts, transactions, rules, redeleted, document, database>>
          ELSE /\ transactions' = Append(transactions,
                     Row(call.account_id, data.date, data.amount, data.payee,
                         data.categoryId, None))
               /\ calls' = [calls EXCEPT ![c] =
                     [call EXCEPT !.inserted = <<Len(transactions) + 1>>, !.pc = "update"]]
               /\ UNCHANGED <<accounts, rules, redeleted, last, tick, document, database, mutex>>

\* transactions.rs:188-195: the balance UPDATE of create_transaction
CreateBalance(c) ==
    /\ calls[c].op = "create_transaction" /\ calls[c].pc = "update"
    /\ accounts' = [accounts EXCEPT ![calls[c].account_id].current_balance =
                        @ + calls[c].batch[1].amount]
    /\ calls' = [calls EXCEPT ![c].pc = "drop"]
    /\ UNCHANGED <<transactions, rules, redeleted, last, tick, document, database, mutex>>

\* transactions.rs:197: drop(database), before get_transaction locks again
CreateDrop(c) ==
    /\ calls[c].op = "create_transaction" /\ calls[c].pc = "drop"
    /\ mutex' = None
    /\ calls' = [calls EXCEPT ![c].pc = "relock"]
    /\ UNCHANGED <<accounts, transactions, rules, redeleted, last, tick, document, database>>

\* transactions.rs:98-138: the read-back of get_transaction (WHERE id = ?1 AND
\* deleted_at IS NULL) and the return
CreateRead(c) ==
    /\ calls[c].op = "create_transaction" /\ calls[c].pc = "read"
    /\ LET id == calls[c].inserted[1]
       IN Return(c, calls[c],
                 IF transactions[id].deleted THEN [ok |-> FALSE]
                 ELSE [ok |-> TRUE, id |-> id, record |-> transactions[id]])
    /\ UNCHANGED <<accounts, transactions, rules, redeleted, document, database>>

\* transactions.rs:269-289: delete_transactions under its guard, and the
\* return
DeleteRun(c) ==
    /\ calls[c].op = "delete_transactions" /\ calls[c].pc = "delete"
    /\ LET r == DeleteLoop(transactions, accounts, calls[c].ids)
       IN /\ transactions' = r.txs
          /\ accounts' = r.accts
          /\ Return(c, calls[c], [ok |-> r.ok])
    /\ UNCHANGED <<rules, redeleted, document, database>>

\* transactions.rs:201-260 update_transaction.  The SELECT of the old amount
\* fails for an id without row and `?` returns; the UPDATE of the row and the
\* adjustment of the balance take also a deleted row (no statement tests
\* deleted_at); the read-back of get_transaction finds only a live row
UpdateTransaction(id, data) ==
    IF ~GetConnection(database) THEN NotUnlocked("update_transaction") ELSE
    /\ IF id \notin TxIds(transactions)
       THEN /\ UNCHANGED <<accounts, transactions>>
            /\ last' = [op |-> "update_transaction", ok |-> FALSE, id |-> id, data |-> data,
                        found |-> FALSE]
       ELSE LET old_amount == transactions[id].amount
                account_id == transactions[id].account_id
                updated == [transactions[id] EXCEPT
                              !.date = IF IsSome(data.date) THEN data.date[1] ELSE @,
                              !.amount = IF IsSome(data.amount) THEN data.amount[1] ELSE @,
                              !.payee = IF IsSome(data.payee) THEN data.payee ELSE @,
                              !.category_id = data.categoryId]
                diff == IF IsSome(data.amount) THEN data.amount[1] - old_amount ELSE 0
            IN /\ transactions' = [transactions EXCEPT ![id] = updated]
               /\ accounts' = IF diff # 0 /\ account_id \in AccountIds
                                 /\ accounts[account_id].exists
                              THEN [accounts EXCEPT ![account_id].current_balance = @ + diff]
                              ELSE accounts
               /\ last' = IF updated.deleted
                          THEN [op |-> "update_transaction", ok |-> FALSE, id |-> id,
                                data |-> data, found |-> TRUE]
                          ELSE [op |-> "update_transaction", ok |-> TRUE, id |-> id,
                                data |-> data, found |-> TRUE, record |-> updated]
    /\ tick' = 1 - tick
    /\ UNCHANGED <<rules, redeleted, document, database, mutex, calls>>

\* settings.rs:8-14 unlock_database, connection.rs:50-70 unlock: the file at
\* the path is opened (and made where there is none) and keyed with the
\* password; where the schema can be read the connection is kept and
\* Ok(true) returned, where it cannot Ok(false) is returned and self.conn
\* is left as it was
UnlockDatabase(password) ==
    /\ IF database.key = None \/ database.key = Some(password)
       THEN /\ database' = [conn |-> TRUE, key |-> Some(password)]
            /\ last' = [op |-> "unlock_database", ok |-> TRUE, result |-> TRUE]
       ELSE /\ database' = database
            /\ last' = [op |-> "unlock_database", ok |-> TRUE, result |-> FALSE]
    /\ tick' = 1 - tick
    /\ UNCHANGED <<accounts, transactions, rules, redeleted, document, mutex, calls>>

\* settings.rs:142-157 set_database_path with the path the configuration
\* has, connection.rs:32-44 reload_config: the connection is closed
ReloadConfig ==
    /\ database' = [database EXCEPT !.conn = FALSE]
    /\ last' = [op |-> "reload_config", ok |-> TRUE]
    /\ tick' = 1 - tick
    /\ UNCHANGED <<accounts, transactions, rules, redeleted, document, mutex, calls>>

\* settings.rs:159-163, connection.rs:94-104 delete_database: the connection
\* is closed and the file removed, and its tables with it
DeleteDatabase ==
    /\ database' = [conn |-> FALSE, key |-> None]
    /\ accounts' = [a \in AccountIds |-> NoAccount]
    /\ transactions' = <<>>
    /\ rules' = <<>>
    /\ last' = [op |-> "delete_database", ok |-> TRUE]
    /\ tick' = 1 - tick
    /\ UNCHANGED <<redeleted, document, mutex, calls>>

\* transactions.rs:212-259: update_transaction under its guard, for the id
\* ids[1] and the data batch[1]: the SELECT of the old amount, whose error
\* returns, the UPDATE of the row, the adjustment of the balance and
\* drop(database).  `inserted` keeps the id where the row updated was live
UpdateRun(c) ==
    /\ calls[c].op = "update_transaction" /\ calls[c].pc = "select"
    /\ LET call == calls[c]
           id == call.ids[1]
           data == call.batch[1]
       IN IF id \notin TxIds(transactions)
          THEN /\ Return(c, call, [ok |-> FALSE])
               /\ UNCHANGED <<accounts, transactions, rules, redeleted, document, database>>
          ELSE LET old_amount == transactions[id].amount
                   account_id == transactions[id].account_id
                   diff == IF IsSome(data.amount) THEN data.amount[1] - old_amount ELSE 0
               IN /\ transactions' = [transactions EXCEPT
                        ![id].date = IF IsSome(data.date) THEN data.date[1] ELSE @,
                        ![id].amount = IF IsSome(data.amount) THEN data.amount[1] ELSE @,
                        ![id].payee = IF IsSome(data.payee) THEN data.payee ELSE @,
                        ![id].category_id = data.categoryId]
                  /\ accounts' = IF diff # 0 /\ account_id \in AccountIds
                                    /\ accounts[account_id].exists
                                 THEN [accounts EXCEPT ![account_id].current_balance = @ + diff]
                                 ELSE accounts
                  /\ mutex' = None
                  /\ calls' = [calls EXCEPT ![c] =
                        [call EXCEPT !.pc = "relock",
                                     !.inserted = IF transactions[id].deleted THEN <<>>
                                                  ELSE <<id>>]]
                  /\ UNCHANGED <<rules, redeleted, last, tick, document, database>>

\* transactions.rs:98-138: the read-back of get_transaction in
\* update_transaction, and the return
UpdateRead(c) ==
    /\ calls[c].op = "update_transaction" /\ calls[c].pc = "read"
    /\ LET id == calls[c].ids[1]
       IN Return(c, calls[c],
                 IF transactions[id].deleted THEN [ok |-> FALSE]
                 ELSE [ok |-> TRUE, id |-> id, record |-> transactions[id]])
    /\ UNCHANGED <<accounts, transactions, rules, redeleted, document, database>>

-----------------------------------------------------------------------------
(* The ledger specification: accounts are created, batches imported and    *)
(* transactions deleted                                                    *)

Init ==
    /\ accounts = [a \in AccountIds |-> NoAccount]
    /\ transactions = <<>>
    /\ rules = LedgerRules
    /\ redeleted = 0
    /\ last = [op |-> "init"]
    /\ tick = 0
    /\ document = None
    /\ mutex = None
    /\ calls = <<>>
    /\ database = UnlockedDatabase

Next ==
    \/ \E id \in AccountIds, b \in OpeningBalances : CreateAccount(id, b)
    \/ \E a \in AccountIds \cup {UnknownAccount}, batch \in Batches : ImportTransactions(a, batch)
    \/ \E ids \in SeqsUpTo(1..MaxTx, 1) \ { <<>> } : DeleteTransactions(ids)

Spec == Init /\ [][Next]_vars

-----------------------------------------------------------------------------
(* The rules specification: over a ledger and a rule table drawn at the    *)
(* start, rules are applied by command and rows are imported               *)

PAb == <<"A", "b">>

\* rule_type and pattern of the first rule: every rule type, an unknown one,
\* patterns of either case, and a pattern that is no regular expression
RuleShapes == { <<"payee_contains", <<"A">>>>,
                <<"payee_exact", <<"A", "B">>>>,
                <<"payee_exact", <<"A">>>>,
                <<"payee_starts_with", <<"A">>>>,
                <<"payee_starts_with", <<"b">>>>,
                <<"payee_regex", <<"A">>>>,
                <<"payee_regex", <<"(">>>>,
                <<"payee_equals", <<"a", "b">>>> }

Priorities == {1, 2, 3}

\* The first rule: active at each priority, or inactive
FirstRules == { Rule("c1", s[1], s[2], None, None, None, p, TRUE) :
                  s \in RuleShapes, p \in Priorities }
              \cup { Rule("c1", s[1], s[2], None, None, None, 3, FALSE) : s \in RuleShapes }

\* amount_min, amount_max and account_id of the second rule
RuleFilters == { <<None, None, None>>,
                 <<Some(5), None, None>>,
                 <<None, Some(4), None>>,
                 <<Some(4), Some(5), None>>,
                 <<None, None, Some("a2")>> }

\* The second rule: active with each filter, or inactive
SecondRules == { Rule("c2", "payee_contains", <<"b">>, f[1], f[2], f[3], 2, TRUE) :
                   f \in RuleFilters }
               \cup { Rule("c2", "payee_contains", <<"b">>, None, None, None, 2, FALSE) }

RuleTables == { <<r1, r2>> : r1 \in FirstRules, r2 \in SecondRules }

\* Rows a ledger holds: uncategorized ones (one without a payee), ones
\* categorized by hand, and a deleted one
LedgerRows ==
    { Row("a1", 1, 5, Some(Pab), None, None),
      Row("a2", 2, 4, Some(PAb), None, None),
      Row("a1", 2, -3, None, None, None),
      Row("a1", 3, 5, Some(Pab), Some("c2"), None),
      Row("a2", 4, 4, Some(Pab), Some("c1"), None),
      [Row("a2", 4, 5, Some(Pab), Some("c1"), None) EXCEPT !.deleted = TRUE] }

Ledgers == SeqsUpTo(LedgerRows, MaxTx) \ { <<>> }

\* The transaction_ids argument: absent, empty, or ids of rows (one of them
\* of no row)
IdLists == { None, Some(<<>>), Some(<<1>>), Some(<<1, 2>>), Some(<<MaxTx + 1>>) }

InitRules ==
    /\ transactions \in Ledgers
    /\ accounts = [a \in AccountIds |->
                     [exists |-> TRUE, deleted |-> FALSE,
                      current_balance |-> BalanceOf(transactions, a)]]
    /\ rules \in RuleTables
    /\ redeleted = 0
    /\ last = [op |-> "init"]
    /\ tick = 0
    /\ document = None
    /\ mutex = None
    /\ calls = <<>>
    /\ database = UnlockedDatabase

NextRules ==
    \/ \E ids \in IdLists : ApplyCategoryRules(ids)
    \/ \E a \in AccountIds, item \in Items : ImportTransactions(a, <<item>>)

SpecRules == InitRules /\ [][NextRules]_vars

-----------------------------------------------------------------------------
(* The transfers specification: over a ledger drawn at the start the       *)
(* matcher runs, and the first transaction is deleted                      *)

Zelle == <<"z", "e", "l", "l", "e">>

ToZelle == <<"t", "o", " ", "Z", "e", "l", "l", "e">>

\* The payees of the rows of the two blocks
BlockPayees == { <<Some(Zelle), Some(Zelle)>>,
                 <<Some(ToZelle), Some(Pab)>>,
                 <<Some(Pab), None>> }

\* n rows of +5000 in a1 and n rows of -5000 in a2, one a day back from today
PlusBlock(n, payee) == [k \in 1..n |-> Row("a1", Today - (k - 1), 5000, payee, None, None)]

MinusBlock(n, payee) == [k \in 1..n |-> Row("a2", Today - (k - 1), -5000, payee, None, None)]

\* Rows next to the blocks: an amount one off, the account of the plus rows,
\* a deleted row, rows 5 and 6 days back, a row older than the window, a row
\* whose date is no date, rows of the least i64 amount, and a linked pair
OddRows ==
    { Row("a2", Today, -4999, Some(Zelle), None, None),
      Row("a1", Today, -5000, Some(Zelle), None, None),
      [Row("a2", Today - 1, -5000, Some(Zelle), None, None) EXCEPT !.deleted = TRUE],
      Row("a2", Today - MaxDaysDiff, -5000, Some(Zelle), None, None),
      Row("a2", Today - MaxDaysDiff - 1, -5000, Some(Zelle), None, None),
      Row("a2", Today - WindowDays - 1, -5000, Some(Zelle), None, None),
      Row("a2", UnparseableDate, -5000, Some(Zelle), None, None),
      Row("a2", Today, I64Min, Some(Zelle), None, None) }

ExtraRows == { <<>> } \cup { <<r>> : r \in OddRows }
             \cup { << Row("a1", Today, I64Min, Some(Zelle), None, None),
                       Row("a2", Today - 1, I64Min, Some(Zelle), None, None) >>,
                    << Row("a1", Today - WindowDays - 1, 5000, Some(Zelle), None, None),
                       Row("a2", Today - WindowDays - 1, -5000, Some(Zelle), None, None) >>,
                    << [Row("a1", Today, 5000, Some(Zelle), None, None)
                          EXCEPT !.transfer_id = Some(1), !.transfer_account_id = Some("a2")],
                       [Row("a2", Today, -5000, Some(Zelle), None, None)
                          EXCEPT !.transfer_id = Some(1), !.transfer_account_id = Some("a1")] >> }

\* The ledgers: the two blocks alone, or smaller blocks after the extra rows
TransferLedgers ==
    { PlusBlock(np, p[1]) \o MinusBlock(nm, p[2]) :
        np \in 0..MaxBlock, nm \in 0..MaxBlock, p \in BlockPayees }
    \cup { e \o PlusBlock(np, p[1]) \o MinusBlock(nm, p[2]) :
             e \in ExtraRows, np \in 0..MaxOddBlock, nm \in 0..MaxOddBlock, p \in BlockPayees }

InitTransfers ==
    /\ transactions \in TransferLedgers
    /\ accounts = [a \in AccountIds |->
                     [exists |-> TRUE, deleted |-> FALSE,
                      current_balance |-> BalanceOf(transactions, a)]]
    /\ rules = <<>>
    /\ redeleted = 0
    /\ last = [op |-> "init"]
    /\ tick = 0
    /\ document = None
    /\ mutex = None
    /\ calls = <<>>
    /\ database = UnlockedDatabase

NextTransfers ==
    \/ DetectTransfers
    \/ DeleteTransactions(<<1>>)

SpecTransfers == InitTransfers /\ [][NextTransfers]_vars

-----------------------------------------------------------------------------
(* The link specification: over a small ledger, transactions are linked    *)
(* and unlinked, and the matcher runs                                      *)

LinkLedgers ==
    { e \o PlusBlock(np, Some(Zelle)) \o MinusBlock(nm, Some(Zelle)) :
        e \in { <<>>, << [Row("a2", Today, 7, None, None, None) EXCEPT !.deleted = TRUE] >> },
        np \in 1..MaxOddBlock, nm \in 0..1 }

\* The ids link_transfer and unlink_transfer are called with (the last of
\* them may be the id of no row)
LinkIds == 1..(MaxTx + 1)

InitLink ==
    /\ transactions \in LinkLedgers
    /\ accounts = [a \in AccountIds |->
                     [exists |-> TRUE, deleted |-> FALSE,
                      current_balance |-> BalanceOf(transactions, a)]]
    /\ rules = <<>>
    /\ redeleted = 0
    /\ last = [op |-> "init"]
    /\ tick = 0
    /\ document = None
    /\ mutex = None
    /\ calls = <<>>
    /\ database = UnlockedDatabase

NextLink ==
    \/ \E a, b \in LinkIds : LinkTransfer(a, b)
    \/ \E id \in LinkIds : UnlinkTransfer(id)
    \/ DetectTransfers

SpecLink == InitLink /\ [][NextLink]_vars

-----------------------------------------------------------------------------
(* The recurring specification: over a ledger holding one group of dated   *)
(* transactions and a few rows beside it, the detector runs and the first  *)
(* row is deleted                                                          *)

Foo == <<"F", "o", "o">>

\* The day gaps between the members of the group: the edges of the five
\* classes, the days between them, and the gap of a repeated date
PairGaps == {0, 4, 5, 9, 10, 12, 17, 18, 25, 28, 30, 32, 35, 36, 85, 100, 101, 350}

TripleGaps == {0, 9, 28, 30, 32, 36}

GapSeqs == { <<g, h>> : g, h \in PairGaps } \cup { <<f, g, h>> : f, g, h \in TripleGaps }

\* The amounts of the members, of one bucket and of both signs
MemberAmounts == <<-1000, -1200, 1000, -1000>>

\* The members of the group: the last is dated today, the others before it
\* by the gaps
RECURSIVE MemberRows(_, _, _)
MemberRows(k, date, gaps) ==
    << Row("a1", date, MemberAmounts[k], Some(Foo), (IF k = 1 THEN Some("c1") ELSE None), None) >>
    \o (IF gaps = <<>> THEN <<>> ELSE MemberRows(k + 1, date + gaps[1], Tail(gaps)))

\* The rows beside the group: none; a second group in the other account; a
\* group of a payee of two characters in three bytes;
\* rows of the payee, the account and the bucket of the group that the query
\* or the date parser drops; a row of another bucket; rows of other payees
BesideRows(start) ==
    { <<>>,
      << Row("a2", Today - 14, -600, Some(<<"Z", "a", "b">>), None, None),
         Row("a2", Today - 7, -600, Some(<<"Z", "a", "b">>), None, None),
         Row("a2", Today, -600, Some(<<"Z", "a", "b">>), None, None) >>,
      << Row("a2", Today - 14, -600, Some(<<"é", "a">>), None, None),
         Row("a2", Today - 7, -600, Some(<<"é", "a">>), None, None),
         Row("a2", Today, -600, Some(<<"é", "a">>), None, None) >>,
      << [Row("a1", Today - 30, -1000, Some(Foo), None, None) EXCEPT !.deleted = TRUE] >>,
      << [Row("a1", Today - 30, -1000, Some(Foo), None, None) EXCEPT !.transfer_id = Some(1)] >>,
      << Row("a1", Today - 30, -1000, None, None, None) >>,
      << Row("a1", Today - 30, -1000, Some(<<>>), None, None) >>,
      << Row("a1", Today - 30, -1600, Some(Foo), None, None) >>,
      << Row("a2", Today - 30, -1000, Some(Foo), None, None) >>,
      << Row("a1", UnparseableDate, -1000, Some(Foo), None, None) >>,
      << Row("a1", Today - 30, I64Min, Some(Foo), None, None) >>,
      << Row("a1", start, -1100, Some(<<"#", "1", "2", " ", "F", "o", "o">>), Some("c2"), None) >>,
      << Row("a1", Today - 30, -1000, Some(<<"F", "o", "o", " ", "1", "/", "2", "/", "2", "4">>),
             None, None) >>,
      << Row("a1", Today - 30, -1000, Some(<<"a", "b", " ", "*", "7">>), None, None) >>,
      << Row("a1", Today - RecurringWindowDays - 1, -1000, Some(Foo), None, None) >> }

RecurringLedgers ==
    UNION { { MemberRows(1, Today - SumSeq(gaps), gaps) \o beside :
                beside \in BesideRows(Today - SumSeq(gaps)) } : gaps \in GapSeqs }

InitRecurring ==
    /\ transactions \in RecurringLedgers
    /\ accounts = [a \in AccountIds |->
                     [exists |-> TRUE, deleted |-> FALSE,
                      current_balance |-> BalanceOf(transactions, a)]]
    /\ rules = <<>>
    /\ redeleted = 0
    /\ last = [op |-> "init"]
    /\ tick = 0
    /\ document = None
    /\ mutex = None
    /\ calls = <<>>
    /\ database = UnlockedDatabase

NextRecurring ==
    \/ DetectRecurringTransactions
    \/ DeleteTransactions(<<1>>)

SpecRecurring == InitRecurring /\ [][NextRecurring]_vars

-----------------------------------------------------------------------------
(* The files specification: the parsers read a drawn file                 *)

InitFiles ==
    /\ document \in { Some([kind |-> "pdf", text |-> t]) : t \in PdfTexts }
                    \cup { Some([kind |-> "token", text |-> t]) : t \in AmountTokens }
                    \cup { Some([kind |-> "csv", file |-> f]) : f \in CsvFiles }
                    \cup { Some([kind |-> "boa", text |-> t]) : t \in BoaTexts }
                    \cup { None }
    /\ accounts = [a \in AccountIds |-> NoAccount]
    /\ transactions = <<>>
    /\ rules = <<>>
    /\ redeleted = 0
    /\ last = [op |-> "init"]
    /\ tick = 0
    /\ mutex = None
    /\ calls = <<>>
    /\ database = UnlockedDatabase

\* The limits preview_pdf and preview_boa are called with (import.rs
\* preview_pdf_file and preview_boa_file pass 20)
PdfLimits == {0, 2, 20}

\* The limits preview_csv is called with (import.rs preview_csv_file passes 10)
CsvLimits == {0, 2, 10}

NextFiles ==
    \/ \E limit \in PdfLimits : PreviewPdfFile(limit)
    \/ ParsePdfFile
    \/ ParseAmountToken
    \/ \E mapping \in ColumnMappings : ParseCsvFile(mapping)
    \/ \E max_rows \in CsvLimits : PreviewCsvFile(max_rows)
    \/ \E limit \in PdfLimits : PreviewBoaFile(limit)
    \/ ParseBoaFile

SpecFiles == InitFiles /\ [][NextFiles]_vars

-----------------------------------------------------------------------------
(* The accounts specification: accounts are created and deleted, and       *)
(* transactions created, imported and deleted                              *)

InitAccounts ==
    /\ accounts = [a \in AccountIds |-> NoAccount]
    /\ transactions = <<>>
    /\ rules = <<>>
    /\ redeleted = 0
    /\ last = [op |-> "init"]
    /\ tick = 0
    /\ document = None
    /\ mutex = None
    /\ calls = <<>>
    /\ database = UnlockedDatabase

\* The batches imported: one transaction each
AccountBatches == { <<Parsed(1, 5, Some(Pab), None, None)>>,
                    <<Parsed(2, -3, None, None, None)>> }

NextAccounts ==
    \/ \E id \in AccountIds : CreateAccount(id, 0)
    \/ \E id \in AccountIds \cup {UnknownAccount} : DeleteAccount(id)
    \/ \E a \in AccountIds \cup {UnknownAccount}, amount \in {5, -3} :
         CreateTransaction(a, 1, amount, Some(Pab))
    \/ \E a \in AccountIds \cup {UnknownAccount}, batch \in AccountBatches :
         ImportTransactions(a, batch)
    \/ \E id \in 1..MaxTx : DeleteTransactions(<<id>>)

SpecAccounts == InitAccounts /\ [][NextAccounts]_vars

-----------------------------------------------------------------------------
(* The concurrent specification: commands invoked at any time run          *)
(* statement by statement over one account                                 *)

InitConcurrent ==
    /\ accounts = [a \in AccountIds |->
                     IF a = "a1" THEN [NoAccount EXCEPT !.exists = TRUE] ELSE NoAccount]
    /\ transactions = <<>>
    /\ rules = <<>>
    /\ redeleted = 0
    /\ last = [op |-> "init"]
    /\ tick = 0
    /\ document = None
    /\ mutex = None
    /\ calls = <<>>
    /\ database = UnlockedDatabase

\* The transactions the concurrent calls carry
Coffee == Parsed(1, 5, Some(Pab), None, None)

Tea == Parsed(2, -3, None, None, None)

NextConcurrent ==
    \/ \E batch \in { <<Coffee>>, <<Coffee, Tea>> } :
         Invoke("import_transactions", "a1", batch, <<>>)
    \/ \E data \in { Coffee, Parsed(2, -3, None, Some("cX"), None) } :
         Invoke("create_transaction", "a1", <<data>>, <<>>)
    \/ Invoke("delete_transactions", "a1", <<>>, <<1>>)
    \/ \E c \in 1..Len(calls) : Lock(c)
    \/ \E c \in 1..Len(calls) : ImportCheck(c)
    \/ \E c \in 1..Len(calls) : ImportInsert(c)
    \/ \E c \in 1..Len(calls) : ImportBalance(c)
    \/ \E c \in 1..Len(calls) : ImportReturn(c)
    \/ \E c \in 1..Len(calls) : CreateInsert(c)
    \/ \E c \in 1..Len(calls) : CreateBalance(c)
    \/ \E c \in 1..Len(calls) : CreateDrop(c)
    \/ \E c \in 1..Len(calls) : CreateRead(c)
    \/ \E c \in 1..Len(calls) : DeleteRun(c)

SpecConcurrent == InitConcurrent /\ [][NextConcurrent]_vars

-----------------------------------------------------------------------------
(* The balance specification: accounts are created with balance 0, and     *)
(* transactions created, updated, deleted (a deleted one once more) and    *)
(* imported                                                                *)

\* The most calls of delete_transactions, in a behaviour of the balance
\* specification, that name a row deleted already
MaxRedeleteBalance == 1

\* The `data` of update_transaction: nothing, another amount, another date,
\* payee and category
Updates == { [date |-> None, amount |-> None, payee |-> None, categoryId |-> None],
             [date |-> None, amount |-> Some(9), payee |-> None, categoryId |-> None],
             [date |-> Some(3), amount |-> None, payee |-> Some(Pab),
              categoryId |-> Some("c1")] }

\* The batches imported: one transaction, and one transaction before one
\* that names a category that does not exist
BalanceBatches == { <<Coffee>>, <<Tea, Parsed(2, 5, None, Some("cX"), None)>> }

NextBalance ==
    \/ \E id \in AccountIds : CreateAccount(id, 0)
    \/ \E a \in AccountIds : CreateTransaction(a, 1, 5, Some(Pab))
    \/ \E id \in 1..(MaxTx + 1), data \in Updates : UpdateTransaction(id, data)
    \/ \E id \in 1..(MaxTx + 1) : DeleteTransactionsWithin(<<id>>, MaxRedeleteBalance)
    \/ \E a \in AccountIds, batch \in BalanceBatches : ImportTransactions(a, batch)

SpecBalance == Init /\ [][NextBalance]_vars

-----------------------------------------------------------------------------
(* The locked specification: the application starts on the file of a       *)
(* database without connection; the database is unlocked, its connection   *)
(* closed and its file deleted, and the ledger commands are called in      *)
(* between                                                                 *)

InitLocked ==
    /\ accounts = [a \in AccountIds |-> NoAccount]
    /\ transactions = <<>>
    /\ rules = LedgerRules
    /\ redeleted = 0
    /\ last = [op |-> "init"]
    /\ tick = 0
    /\ document = None
    /\ mutex = None
    /\ calls = <<>>
    /\ database = [conn |-> FALSE, key |-> Some(Password)]

\* The passwords unlock_database is called with
Passwords == {Password, "bad"}

NextLocked ==
    \/ \E password \in Passwords : UnlockDatabase(password)
    \/ ReloadConfig
    \/ DeleteDatabase
    \/ \E id \in AccountIds : CreateAccount(id, 0)
    \/ DeleteAccount("a2")
    \/ \E a \in AccountIds : ImportTransactions(a, <<Coffee>>)
    \/ CreateTransaction("a1", 2, -3, None)
    \/ UpdateTransaction(1, [date |-> None, amount |-> Some(9), payee |-> None,
                             categoryId |-> None])
    \/ DeleteTransactions(<<1>>)
    \/ ApplyCategoryRules(None)
    \/ DetectTransfers
    \/ LinkTransfer(1, 2)
    \/ UnlinkTransfer(1)
    \/ DetectRecurringTransactions

SpecLocked == InitLocked /\ [][NextLocked]_vars

-----------------------------------------------------------------------------
(* The read-back specification: create_transaction, update_transaction and *)
(* delete_transactions invoked at any time on an account with one          *)
(* transaction, and run statement by statement                             *)

InitReadBack ==
    /\ accounts = [a \in AccountIds |->
                     IF a = "a1" THEN [exists |-> TRUE, deleted |-> FALSE, current_balance |-> 5]
                     ELSE NoAccount]
    /\ transactions = << Row("a1", 1, 5, Some(Pab), None, None) >>
    /\ rules = <<>>
    /\ redeleted = 0
    /\ last = [op |-> "init"]
    /\ tick = 0
    /\ document = None
    /\ mutex = None
    /\ calls = <<>>
    /\ database = UnlockedDatabase

\* The data of the update invoked: another amount
NewAmount == [date |-> None, amount |-> Some(9), payee |-> None, categoryId |-> None]

NextReadBack ==
    \/ Invoke("create_transaction", "a1", <<Tea>>, <<>>)
    \/ Invoke("update_transaction", "a1", <<NewAmount>>, <<1>>)
    \/ \E id \in 1..2 : Invoke("delete_transactions", "a1", <<>>, <<id>>)
    \/ \E c \in 1..Len(calls) : Lock(c)
    \/ \E c \in 1..Len(calls) : CreateInsert(c)
    \/ \E c \in 1..Len(calls) : CreateBalance(c)
    \/ \E c \in 1..Len(calls) : CreateDrop(c)
    \/ \E c \in 1..Len(calls) : CreateRead(c)
    \/ \E c \in 1..Len(calls) : UpdateRun(c)
    \/ \E c \in 1..Len(calls) : UpdateRead(c)
    \/ \E c \in 1..Len(calls) : DeleteRun(c)

SpecReadBack == InitReadBack /\ [][NextReadBack]_vars

-----------------------------------------------------------------------------
(* Claims about the import reconciler *)

\* The dedup key of the claim: date, amount and payee, an absent payee
\* being equal to an absent payee
SameKey(x, y) == x.date = y.date /\ x.amount = y.amount /\ x.payee = y.payee

\* The positions of the batch that repeat the key of a live row of the target
\* account or of an earlier element of the batch
RepeatedPositions(txs, account_id, batch) ==
    { i \in 1..Len(batch) :
        \/ \E r \in LiveRowsOf(txs, account_id) : SameKey(txs[r], batch[i])
        \/ \E j \in 1..(i - 1) : SameKey(batch[j], batch[i]) }

\* The sum of the amounts of the non-deleted transactions of an account
LiveSum(txs, a) ==
    SumSeq([k \in 1..Len(txs) |->
              IF txs[k].account_id = a /\ ~txs[k].deleted THEN txs[k].amount ELSE 0])

\* A step that is a successful import_transactions (every command flips tick
\* and records itself in last)
ImportStep == tick' # tick /\ last'.op = "import_transactions" /\ last'.ok

\* C1: import_transactions deduplicates per account on {date, amount, payee},
\* a null payee matching a null payee: every element of the batch whose key is
\* that of a live row of the target account, or of an earlier element of the
\* batch, is counted as skipped and adds no row; every other element is
\* counted as imported and adds one row with its key.  So the same key twice
\* in one batch, or in two successive calls, gives imported = 1 and skipped = 1
\* in total, one live row with that key, and a balance holding the amount once.
C1_ImportDedup ==
    [][ImportStep =>
        LET a == last'.account_id
            batch == last'.batch
            rep == RepeatedPositions(transactions, a, batch)
            new == (Len(transactions) + 1)..Len(transactions')
        IN /\ last'.skipped = Cardinality(rep)
           /\ last'.imported = Len(batch) - Cardinality(rep)
           /\ Cardinality(new) = last'.imported
           /\ LET fresh == SortedIds((1..Len(batch)) \ rep)
              IN \A k \in 1..Len(fresh) :
                    LET row == transactions'[Len(transactions) + k]
                    IN /\ SameKey(row, batch[fresh[k]])
                       /\ row.account_id = a /\ ~row.deleted
           \* twice in one batch
           /\ (Len(batch) = 2 /\ SameKey(batch[1], batch[2])
               /\ ~\E r \in LiveRowsOf(transactions, a) : SameKey(transactions[r], batch[1]))
              => /\ last'.imported = 1 /\ last'.skipped = 1
                 /\ Cardinality({ r \in LiveRowsOf(transactions', a) :
                                    SameKey(transactions'[r], batch[1]) }) = 1
                 /\ CurrentBalance(accounts', a)
                      = Some(LiveSum(transactions, a) + batch[1].amount)
           \* twice in two successive calls: the call before this one imported
           \* the one element of its batch, which has the key of this one's
           /\ (Len(batch) = 1 /\ last.op = "import_transactions" /\ last.ok
               /\ last.account_id = a /\ Len(last.batch) = 1 /\ last.imported = 1
               /\ SameKey(last.batch[1], batch[1]))
              => /\ last'.imported = 0 /\ last'.skipped = 1
                 /\ Len(transactions') = Len(transactions)
                 /\ CurrentBalance(accounts', a) = CurrentBalance(accounts, a)
                 /\ CurrentBalance(accounts', a) = Some(LiveSum(transactions', a))]_vars

\* C1 witness: a batch of two elements with one key and no payee came back
\* with imported = 1 and skipped = 1 and left the one row of the ledger
C1_Witness ==
    /\ last.op = "import_transactions" /\ last.ok
    /\ Len(last.batch) = 2 /\ SameKey(last.batch[1], last.batch[2])
    /\ last.batch[1].payee = None
    /\ last.imported = 1 /\ last.skipped = 1
    /\ Len(transactions) = 1

\* C2: after a successful import_transactions for account A, A's
\* current_balance is the sum of the amounts of A's non-deleted transactions,
\* whatever it was before, and no other account's balance changed.
C2_ImportBalance ==
    [][ImportStep /\ last'.account_id \in AccountIds =>
        LET a == last'.account_id
        IN /\ accounts'[a].current_balance = LiveSum(transactions', a)
           /\ \A b \in AccountIds \ {a} :
                accounts'[b].current_balance = accounts[b].current_balance]_vars

\* C2 witness: an import into an account whose balance did not equal the sum
\* of its transactions before the call (a non-zero opening balance)
C2_Witness ==
    /\ last.op = "import_transactions" /\ last.ok
    /\ last.imported = 1 /\ Len(transactions) = 1
    /\ last.balance_before = Some(7)
    /\ accounts[last.account_id].current_balance = transactions[1].amount

-----------------------------------------------------------------------------
(* Claims about the category rule engine *)

\* A step that is an apply_category_rules command
ApplyStep == tick' # tick /\ last'.op = "apply_category_rules"

\* A step that ran a rule application: the command, or a successful import
RuleApplicationStep == ApplyStep \/ ImportStep

\* The total a rule application returned
Counted(l) == IF l.op = "import_transactions" THEN l.categorized ELSE l.count

\* The rows in the scope of a rule application: all, or those of the id list
ScopeOf(l) == IF IsSome(l.ids) THEN Range(l.ids[1]) \cap TxIds(l.before)
              ELSE TxIds(l.before)

\* C3: rule engine idempotence, for either scope: when apply_category_rules is
\* called twice in succession with the same scope and nothing changed in
\* between, the second call returns 0 and changes no transaction's category.
C3_Idempotent ==
    [][(ApplyStep /\ last.op = "apply_category_rules" /\ last.ids = last'.ids)
         => /\ last'.count = 0
            /\ \A i \in TxIds(transactions) :
                  transactions'[i].category_id = transactions[i].category_id]_vars

\* C4: a rule application leaves every already-categorized transaction
\* unchanged, for any rule set and either scope, also when its id is passed in
\* the id list, and does not count it in the returned total.
C4_CategorizedUntouched ==
    [][RuleApplicationStep =>
         LET b == last'.before
         IN /\ \A i \in TxIds(b) :
                  IsSome(b[i].category_id) => transactions'[i].category_id = b[i].category_id
            /\ Counted(last') <= Cardinality({ i \in TxIds(b) :
                                                 /\ b[i].category_id = None
                                                 /\ IsSome(transactions'[i].category_id) })]_vars

\* When a rule qualifies for a transaction, in the words of the claim
C5_Qualifies(rule, tx) ==
    /\ rule.is_active
    /\ (rule.account_id = None \/ rule.account_id = Some(tx.account_id))
    /\ (rule.amount_min = None \/ rule.amount_min[1] <= tx.amount)
    /\ (rule.amount_max = None \/ tx.amount <= rule.amount_max[1])
    /\ tx.payee # None
    /\ LET payee == tx.payee[1]
           low(t) == [k \in 1..Len(t) |-> Lower(t[k])]
           at(hay, needle, k) == /\ k + Len(needle) - 1 <= Len(hay)
                                 /\ \A m \in 1..Len(needle) : hay[k + m - 1] = needle[m]
           within(hay, needle) == needle = <<>> \/ \E k \in 1..Len(hay) : at(hay, needle, k)
       IN \/ rule.rule_type = "payee_contains" /\ within(low(payee), low(rule.pattern))
          \/ rule.rule_type = "payee_exact" /\ low(payee) = low(rule.pattern)
          \/ rule.rule_type = "payee_starts_with" /\ at(low(payee), low(rule.pattern), 1)
          \/ /\ rule.rule_type = "payee_regex"
             /\ \A k \in 1..Len(rule.pattern) : rule.pattern[k] # "("
             /\ within(payee, rule.pattern)

\* C5: the category the rule pass of apply_category_rules assigns to an
\* uncategorized non-deleted transaction in scope is the category of a
\* qualifying active rule of the highest priority among the qualifying ones;
\* a rule qualifies iff its account filter is absent or the transaction's
\* account, the amount lies within the inclusive optional bounds and the
\* pattern matches the payee per rule_type; inactive rules never assign, a
\* transaction without a payee is matched by no rule, and when no rule
\* qualifies the category stays null.
C5_RulePass ==
    [][ApplyStep =>
         \A i \in ScopeOf(last') :
            LET tx == transactions[i]
                Q == { r \in 1..Len(rules) : C5_Qualifies(rules[r], tx) }
                top == { r \in Q : \A q \in Q : rules[r].priority >= rules[q].priority }
            IN (tx.category_id = None /\ ~tx.deleted) =>
                 /\ (Q = {} => transactions'[i].category_id = None)
                 /\ (Q # {} => transactions'[i].category_id
                                  \in { Some(rules[r].category_id) : r \in top })
                 /\ (tx.payee = None => transactions'[i].category_id = None)]_vars

\* C5 witness: both rules qualified for an uncategorized transaction, the
\* second (with an amount bound the amount equals) of the higher priority, and
\* the transaction has the second rule's category
C5_Witness ==
    /\ last.op = "apply_category_rules" /\ last.count >= 1
    /\ \E i \in TxIds(last.before) :
         /\ last.before[i].category_id = None
         /\ C5_Qualifies(rules[1], last.before[i])
         /\ C5_Qualifies(rules[2], last.before[i])
         /\ rules[1].priority < rules[2].priority
         /\ rules[2].amount_min = Some(last.before[i].amount)
         /\ transactions[i].category_id = Some(rules[2].category_id)

\* C6: after the rule pass of a rule application (the command or the one at
\* the end of an import, whatever the active rules), every in-scope transaction
\* still uncategorized that has a payee receives the category of the most
\* recent other non-deleted categorized transaction with the same payee, when
\* there is one, and is counted.  Stated for the transactions no rule
\* qualifies for and whose payee no other uncategorized transaction in scope
\* shares, so that the rule pass leaves them and their donors as they were.
C6_LearningPass ==
    [][RuleApplicationStep =>
         LET b == last'.before
             scope == ScopeOf(last')
             open(i) == b[i].category_id = None /\ ~b[i].deleted /\ IsSome(b[i].payee)
             donors(i) == { d \in TxIds(b) \ {i} : /\ ~b[d].deleted
                                                   /\ b[d].payee = b[i].payee
                                                   /\ IsSome(b[d].category_id) }
             recent(i) == { d \in donors(i) : \A e \in donors(i) : b[d].date >= b[e].date }
             due == { i \in scope :
                        /\ open(i)
                        /\ ~\E r \in 1..Len(rules) : C5_Qualifies(rules[r], b[i])
                        /\ ~\E j \in scope \ {i} : open(j) /\ b[j].payee = b[i].payee
                        /\ donors(i) # {} }
         IN /\ \A i \in due : transactions'[i].category_id
                                  \in { transactions'[d].category_id : d \in recent(i) }
            /\ Counted(last') >= Cardinality(due)]_vars

-----------------------------------------------------------------------------
(* Claims about the transfer matcher *)

\* A step that is a detect_transfers command that returned
DetectStep == tick' # tick /\ last'.op = "detect_transfers" /\ last'.ok

\* The two transactions of the k-th candidate of a result
PairOf(res, k) == { res[k].a, res[k].b }

\* C7: every candidate detect_transfers returns pairs two distinct
\* non-deleted transactions with null transfer_id of different accounts, whose
\* amounts are exact opposites and whose dates are at most 5 days apart; each
\* unordered pair appears at most once; +5000/-4999 never appears.
C7_Candidates ==
    [][DetectStep =>
         LET res == last'.result
         IN /\ \A k \in 1..Len(res) :
                  LET ta == transactions[res[k].a]
                      tb == transactions[res[k].b]
                  IN /\ res[k].a # res[k].b
                     /\ ~ta.deleted /\ ~tb.deleted
                     /\ ta.transfer_id = None /\ tb.transfer_id = None
                     /\ ta.account_id # tb.account_id
                     /\ ta.amount + tb.amount = 0
                     /\ ta.date - tb.date \in -5..5
                     /\ {ta.amount, tb.amount} # {5000, -4999}
            /\ \A k, m \in 1..Len(res) : k # m => PairOf(res, k) # PairOf(res, m)]_vars

\* The statement of C7 for the candidates whose amounts are not the least
\* i64 (whose negation overflows)
C7_CandidatesButLeastAmount ==
    [][DetectStep =>
         LET res == last'.result
         IN /\ \A k \in 1..Len(res) :
                  LET ta == transactions[res[k].a]
                      tb == transactions[res[k].b]
                  IN /\ res[k].a # res[k].b
                     /\ ~ta.deleted /\ ~tb.deleted
                     /\ ta.transfer_id = None /\ tb.transfer_id = None
                     /\ ta.account_id # tb.account_id
                     /\ (tb.amount # I64Min => ta.amount + tb.amount = 0)
                     /\ ta.date - tb.date \in -5..5
                     /\ {ta.amount, tb.amount} # {5000, -4999}
            /\ \A k, m \in 1..Len(res) : k # m => PairOf(res, k) # PairOf(res, m)]_vars

\* The pairs of the reference shape: unlinked non-deleted transactions of the
\* last 90 days in different accounts, +5000 and -5000, one day apart, both
\* payees containing "zelle"
ReferencePairs(txs) ==
    { q \in TxIds(txs) \X TxIds(txs) :
        LET ta == txs[q[1]]
            tb == txs[q[2]]
        IN /\ ~ta.deleted /\ ~tb.deleted
           /\ ta.transfer_id = None /\ tb.transfer_id = None
           /\ ta.date >= Today - 90 /\ tb.date >= Today - 90
           /\ ta.account_id # tb.account_id
           /\ ta.amount = 5000 /\ tb.amount = -5000
           /\ (ta.date - tb.date = 1 \/ tb.date - ta.date = 1)
           /\ IsSome(ta.payee) /\ Contains(ta.payee[1], Zelle)
           /\ IsSome(tb.payee) /\ Contains(tb.payee[1], Zelle) }

\* C8 as stated: the reference pair gets a confidence of at least 0.88 and
\* appears in the detect_transfers result.
C8_ReferenceAtLeast088 ==
    [][DetectStep =>
         \A q \in ReferencePairs(transactions) :
            \E k \in 1..Len(last'.result) :
               /\ PairOf(last'.result, k) = {q[1], q[2]}
               /\ last'.result[k].confidence >= 880000]_vars

\* C8 amended: the reference pair gets a confidence of 0.80 (0.6 * 0.8 + 0.4 *
\* 0.8), and appears in the detect_transfers result unless 20 pairs of at
\* least that confidence fill it.
C8_ReferenceIs080 ==
    [][DetectStep =>
         LET res == last'.result
         IN \A q \in ReferencePairs(transactions) :
               /\ \A k \in 1..Len(res) :
                     PairOf(res, k) = {q[1], q[2]} => res[k].confidence = 800000
               /\ \/ \E k \in 1..Len(res) : PairOf(res, k) = {q[1], q[2]}
                  \/ /\ Len(res) = 20
                     /\ \A k \in 1..Len(res) : res[k].confidence >= 800000]_vars

\* C8 witness: a returned result holds a pair of the reference shape, with
\* confidence 0.80
C8_Witness ==
    /\ last.op = "detect_transfers" /\ last.ok
    /\ \E q \in ReferencePairs(transactions) :
         \E k \in 1..Len(last.result) :
            /\ PairOf(last.result, k) = {q[1], q[2]}
            /\ last.result[k].confidence = 800000

\* The pairs that qualify, in the words of C7, and the confidence of a pair
QualifyingPairs(txs) ==
    { q \in TxIds(txs) \X TxIds(txs) :
        LET ta == txs[q[1]]
            tb == txs[q[2]]
        IN /\ q[1] < q[2]
           /\ ~ta.deleted /\ ~tb.deleted
           /\ ta.transfer_id = None /\ tb.transfer_id = None
           /\ ta.date >= Today - 90 /\ tb.date >= Today - 90
           /\ ta.date # UnparseableDate /\ tb.date # UnparseableDate
           /\ ta.account_id # tb.account_id
           /\ ta.amount + tb.amount = 0
           /\ ta.date - tb.date \in -5..5 }

PairConfidence(txs, a, b) ==
    Confidence(DaysDiff(txs[a].date, txs[b].date),
               CalculatePayeeSimilarity(txs[a].payee, txs[b].payee))

-----------------------------------------------------------------------------
(* Claims about linking *)

LinkStep == tick' # tick /\ last'.op = "link_transfer" /\ last'.ok

UnlinkStep == tick' # tick /\ last'.op = "unlink_transfer" /\ last'.ok

\* Whether a transaction carries neither a transfer id nor a transfer account
Unlinked(tx) == tx.transfer_id = None /\ tx.transfer_account_id = None

\* A row but for its two transfer fields
BesidesTransfer(tx) == [tx EXCEPT !.transfer_id = None, !.transfer_account_id = None]

\* C10: link_transfer(a, b) gives a and b one transfer id that no transaction
\* carried, sets a.transfer_account_id to b's account and b's to a's account,
\* and changes no other transaction; unlink_transfer on a linked transaction
\* clears both fields of every transaction carrying its transfer id (and of
\* no other), so link_transfer(a, b) followed by unlink_transfer of a or of b
\* leaves both unlinked; unlink_transfer on an unlinked transaction changes
\* nothing.
C10_LinkUnlink ==
    [][/\ LinkStep =>
            LET a == last'.a
                b == last'.b
            IN /\ IsSome(transactions'[a].transfer_id)
               /\ transactions'[a].transfer_id = transactions'[b].transfer_id
               /\ \A i \in TxIds(transactions) :
                     transactions[i].transfer_id # transactions'[a].transfer_id
               /\ a # b => transactions'[a].transfer_account_id
                              = Some(transactions[b].account_id)
               /\ transactions'[b].transfer_account_id = Some(transactions[a].account_id)
               /\ Len(transactions') = Len(transactions)
               /\ \A i \in TxIds(transactions) :
                     /\ i \notin {a, b} => transactions'[i] = transactions[i]
                     /\ BesidesTransfer(transactions'[i]) = BesidesTransfer(transactions[i])
               /\ accounts' = accounts
       /\ UnlinkStep =>
            LET id == last'.id
            IN /\ Len(transactions') = Len(transactions)
               /\ accounts' = accounts
               /\ IF transactions[id].transfer_id = None
                  THEN transactions' = transactions
                  ELSE \A i \in TxIds(transactions) :
                         IF transactions[i].transfer_id = transactions[id].transfer_id
                         THEN /\ Unlinked(transactions'[i])
                              /\ BesidesTransfer(transactions'[i])
                                   = BesidesTransfer(transactions[i])
                         ELSE transactions'[i] = transactions[i]
               /\ (last.op = "link_transfer" /\ last.ok /\ id \in {last.a, last.b})
                  => Unlinked(transactions'[last.a]) /\ Unlinked(transactions'[last.b])]_vars

\* C10 witness: link_transfer(a, b) of two transactions was followed by
\* unlink_transfer of b, and both are unlinked
C10_Witness ==
    /\ last.op = "unlink_transfer" /\ last.ok
    /\ IsSome(last.previous) /\ last.previous[1].op = "link_transfer" /\ last.previous[1].ok
    /\ last.previous[1].a # last.previous[1].b
    /\ last.id = last.previous[1].b
    /\ Unlinked(transactions[last.previous[1].a]) /\ Unlinked(transactions[last.previous[1].b])

-----------------------------------------------------------------------------
(* Claims about the recurring series detector *)

\* A step of detect_recurring_transactions that returned
RecurringStep ==
    /\ tick' # tick
    /\ last'.op = "detect_recurring_transactions"
    /\ last'.ok

\* The dates of the rows S
DatesOf(S) == { transactions[i].date : i \in S }

Latest(D) == CHOOSE d \in D : \A e \in D : e <= d

Earliest(D) == CHOOSE d \in D : \A e \in D : d <= e

\* The mean of the positive gaps between the sorted dates D lies in lo..hi:
\* the positive gaps are those between the distinct dates, and their sum is
\* the distance from the earliest to the latest
C11_MeanIn(D, lo, hi) ==
    /\ Cardinality(D) > 1
    /\ lo * (Cardinality(D) - 1) <= Latest(D) - Earliest(D)
    /\ Latest(D) - Earliest(D) <= hi * (Cardinality(D) - 1)

C11_Classes == { <<"weekly", 5, 9, 7>>, <<"biweekly", 12, 17, 14>>, <<"monthly", 25, 35, 30>>,
                 <<"quarterly", 85, 100, 91>>, <<"yearly", 350, 380, 365>> }

\* The groups of at least three dated transactions
C11_Groups ==
    { DatedOf(transactions, GroupOf(transactions, accounts, key)) :
        key \in GroupKeys(transactions, accounts) }
    \cap { S \in SUBSET TxIds(transactions) : Cardinality(S) >= 3 }

\* The series the result holds for the rows S
C11_SeriesOf(S) ==
    { k \in 1..Len(last'.detected) : Range(last'.detected[k].transactions) \cap S # {} }

\* Four rows, each 30 +- 2 days after the one before, of one payee, account
\* and amount bucket, and no other row
C11_FourMonthly ==
    /\ Len(transactions) = 4
    /\ \A i \in 1..3 : transactions[i + 1].date - transactions[i].date \in 28..32
    /\ \A i \in 1..4 : /\ ~transactions[i].deleted
                       /\ transactions[i].transfer_id = None
                       /\ transactions[i].payee = Some(Foo)
                       /\ transactions[i].account_id = "a1"
                       /\ transactions[i].amount \in {-1000, -1200, 1000}

\* C11: when detect_recurring_transactions returns, every group of at least
\* three dated transactions whose mean positive day gap lies in the range of
\* a class (weekly 5-9, biweekly 12-17, monthly 25-35, quarterly 85-100,
\* yearly 350-380) yields exactly one series, of that class and its canonical
\* days (7, 14, 30, 91, 365), whose occurrences are the group size, whose
\* last_date is the latest date and whose next_expected_date is that date
\* plus the canonical days; a group whose mean is in no range, or that has no
\* positive gap, yields no series; no series comes from anything else; and
\* four transactions 30 +- 2 days apart yield one monthly series of 30 days.
C11_Frequency ==
    [][RecurringStep =>
        /\ \A S \in C11_Groups :
             /\ \A c \in C11_Classes :
                  C11_MeanIn(DatesOf(S), c[2], c[3]) =>
                    /\ Cardinality(C11_SeriesOf(S)) = 1
                    /\ \A k \in C11_SeriesOf(S) :
                         LET s == last'.detected[k]
                         IN /\ Range(s.transactions) = S
                            /\ s.frequency = c[1]
                            /\ s.frequency_days = c[4]
                            /\ s.occurrences = Cardinality(S)
                            /\ s.last_date = Latest(DatesOf(S))
                            /\ s.next_expected_date = Latest(DatesOf(S)) + c[4]
             /\ (\A c \in C11_Classes : ~C11_MeanIn(DatesOf(S), c[2], c[3]))
                  => C11_SeriesOf(S) = {}
        /\ \A k \in 1..Len(last'.detected) :
             Range(last'.detected[k].transactions) \in C11_Groups
        /\ C11_FourMonthly =>
             /\ Len(last'.detected) = 1
             /\ last'.detected[1].frequency = "monthly"
             /\ last'.detected[1].frequency_days = 30
      ]_vars

\* The detector has returned one monthly series of 30 days and 4 occurrences
\* for four transactions 30 +- 2 days apart, not all 30
C11_Witness ==
    /\ last.op = "detect_recurring_transactions"
    /\ last.ok
    /\ C11_FourMonthly
    /\ \E i \in 1..3 : transactions[i + 1].date - transactions[i].date # 30
    /\ Len(last.detected) = 1
    /\ last.detected[1].frequency = "monthly"
    /\ last.detected[1].frequency_days = 30
    /\ last.detected[1].occurrences = 4
    /\ last.detected[1].next_expected_date = Today + 30

-----------------------------------------------------------------------------
(* Claims about the heuristic document parser *)

\* A step of preview_pdf or parse_pdf on a file that is there
PdfStep ==
    /\ tick' # tick
    /\ last'.op \in {"preview_pdf", "parse_pdf"}
    /\ document # None

\* C12: whenever the extracted text has fewer than 100 characters,
\* preview_pdf and parse_pdf return an error, and no preview or list.
C12_LowSignal ==
    [][PdfStep /\ Len(document[1].text) < 100 => ~last'.result.ok]_vars

\* What the code does instead: the error is returned exactly when the text
\* without the whitespace around it has fewer than 100 bytes
C12_LowSignalInBytes ==
    [][PdfStep =>
        (~last'.result.ok <=>
            LET text == Trim(document[1].text)
            IN Len(text) + Cardinality({ i \in 1..Len(text) : text[i] = "é" }) < 100)
      ]_vars

\* The lines of the document, trimmed
C13_Lines == LET lines == Lines(document[1].text, 1)
             IN [i \in 1..Len(lines) |-> Trim(lines[i])]

\* Line i of the lines L is consumed by the gated pass as a section start or
\* a table header
C13_Marker(L, i) ==
    /\ L[i] # <<>>
    /\ (FactsOf(L[i]).section \/ FactsOf(L[i]).header)

\* The date-led lines of L that reach the transaction step of the fallback
\* pass and of the gated pass
C13_FallbackReached(L) ==
    { i \in 1..Len(L) : L[i] # <<>> /\ ~FactsOf(L[i]).skip /\ FactsOf(L[i]).dated }

C13_GatedReached(L) == { i \in C13_FallbackReached(L) : ~C13_Marker(L, i) }

C13_Parsed(L, S) == { i \in S : FactsOf(L[i]).tx # None }

\* The lines the gated pass keeps: parsed, and after a marker or the first
C13_GatedKept(L) ==
    LET parsed == C13_Parsed(L, C13_GatedReached(L))
    IN { i \in parsed : \/ \E j \in 1..(i - 1) : C13_Marker(L, j)
                        \/ \A j \in parsed : i <= j }

\* The confidence c is the quotient valid / total, 0.0 when total is 0
C13_IsQuotient(c, valid, total) ==
    /\ c[2] > 0 /\ 0 <= c[1] /\ c[1] <= c[2]
    /\ IF total = 0 THEN c[1] = 0 ELSE c[1] * total = valid * c[2]

\* C13 as stated: the confidence is the number of date-led lines parsed
\* into a transaction by the pass that produced the result, divided by the
\* number of lines of the text that start with a date.
C13_OverAllDatedLines ==
    [][PdfStep /\ last'.op = "preview_pdf" /\ last'.result.ok =>
        LET L == C13_Lines
            dated == { i \in 1..Len(L) : L[i] # <<>> /\ FactsOf(L[i]).dated }
            reached == IF Cardinality(C13_GatedKept(L)) >= 3 THEN C13_GatedReached(L)
                       ELSE C13_FallbackReached(L)
        IN C13_IsQuotient(last'.result.confidence, Cardinality(C13_Parsed(L, reached)),
                          Cardinality(dated))
      ]_vars

\* C13, amended: the confidence is the number of date-led lines parsed into
\* a transaction divided by the number of date-led lines that reach the
\* transaction step of the pass that produced the result (the lines that are
\* not skipped and, in the gated pass, not consumed as section start or
\* table header); it is 0.0 when there is none, and lies in [0, 1].
C13_Confidence ==
    [][PdfStep /\ last'.op = "preview_pdf" /\ last'.result.ok =>
        LET L == C13_Lines
            gated == Cardinality(C13_GatedKept(L)) >= 3
            reached == IF gated THEN C13_GatedReached(L) ELSE C13_FallbackReached(L)
        IN /\ C13_IsQuotient(last'.result.confidence, Cardinality(C13_Parsed(L, reached)),
                             Cardinality(reached))
           /\ last'.result.total_rows = IF gated THEN Cardinality(C13_GatedKept(L))
                                        ELSE Cardinality(C13_Parsed(L, reached))
      ]_vars

\* A preview produced by the gated pass of a text one of whose date-led
\* lines was consumed as a section start: every line that reached the
\* transaction step was parsed
C13_Witness ==
    /\ last.op = "preview_pdf"
    /\ document # None
    /\ last.result.ok
    /\ last.result.confidence = <<1, 1>>
    /\ LET L == C13_Lines
       IN /\ Cardinality(C13_GatedKept(L)) >= 3
          /\ \E i \in 1..Len(L) : /\ L[i] # <<>>
                                  /\ FactsOf(L[i]).dated
                                  /\ i \notin C13_GatedReached(L)

\* A step in which parse_amount is applied to an amount token
AmountStep ==
    /\ tick' # tick
    /\ last'.op = "parse_amount"

\* The value in minor units of the digits of a token with two decimals
C14_Cents(token) == DigitsValue(SelectSeq(token, LAMBDA c : c \in Digits))

C14_HasCR(token) ==
    /\ Len(token) >= 2
    /\ token[Len(token) - 1] = "C"
    /\ token[Len(token)] = "R"

\* The parentheses and minus signs of a token, in order
C14_Marks(token) == SelectSeq(token, LAMBDA c : c \in {"(", ")", "-"})

\* C14 as stated: every amount token has a parsed amount, positive iff the
\* token carries the CR suffix and negative otherwise, whose magnitude is the
\* value of the token in minor units.
C14_SignBySuffix ==
    [][AmountStep =>
        LET token == document[1].text
            r == last'.result
        IN /\ r # None
           /\ (r[1] > 0) <=> C14_HasCR(token)
           /\ ~C14_HasCR(token) => r[1] < 0
           /\ r[1] \in { C14_Cents(token), -C14_Cents(token) }
      ]_vars

\* C14, amended: a token with no parenthesis or minus sign, with both
\* parentheses, or with one minus sign (leading or trailing) parses to its
\* value in minor units, with the plus sign iff it carries the CR suffix and
\* the minus sign otherwise (so a token worth zero parses to 0); any other
\* token (an unpaired parenthesis, two minus signs) has no amount.
C14_Sign ==
    [][AmountStep =>
        LET token == document[1].text
            r == last'.result
        IN IF C14_Marks(token) \in { <<>>, <<"(", ")">>, <<"-">> }
           THEN r = Some(IF C14_HasCR(token) THEN C14_Cents(token) ELSE -C14_Cents(token))
           ELSE r = None
      ]_vars

\* The examples of C14: "5.50", "($50.00)", "50.00-" and "113.19CR"
C14_Examples ==
    [][AmountStep =>
        LET token == document[1].text
            r == last'.result
        IN /\ token = <<"5", ".", "5", "0">> => r = Some(-550)
           /\ token = <<"(", "$", "5", "0", ".", "0", "0", ")">> => r = Some(-5000)
           /\ token = <<"5", "0", ".", "0", "0", "-">> => r = Some(-5000)
           /\ token = <<"1", "1", "3", ".", "1", "9", "C", "R">> => r = Some(11319)
      ]_vars

\* The trailing-minus token of the claim was parsed to -5000
C14_Witness ==
    /\ last.op = "parse_amount"
    /\ document = Some([kind |-> "token", text |-> <<"5", "0", ".", "0", "0", "-">>])
    /\ last.result = Some(-5000)


-----------------------------------------------------------------------------
(* Claims about the tabular parser *)

\* A step in which parse_csv reads a file that exists
ParseCsvStep ==
    /\ tick' # tick
    /\ last'.op = "parse_csv"
    /\ document # None

\* The data rows of the file that are well-formed under the mapping: readable,
\* with a date that parses
C15_WellFormed(file, mapping) ==
    SelectSeq(file.records,
              LAMBDA r : /\ r.ok
                         /\ CsvParseDate(FieldAt(r.fields, mapping.date_column),
                                         mapping.date_format) # None)

\* C15: a malformed data row does not abort parse_csv: with a readable header
\* the call succeeds and returns one transaction for each well-formed row, in
\* file order; only a header that cannot be read makes it fail.
C15_Tolerant ==
    [][ParseCsvStep =>
        LET file == document[1].file
            good == C15_WellFormed(file, last'.mapping)
        IN /\ last'.result.ok <=> file.header.ok
           /\ last'.result.ok =>
                /\ Len(last'.result.transactions) = Len(good)
                /\ \A i \in 1..Len(good) :
                     last'.result.transactions[i].raw_data
                         = RawData(file.header.fields, good[i].fields)
      ]_vars

\* What parse_csv does instead: it fails as soon as one data row is malformed
C15_AllOrNothing ==
    [][ParseCsvStep =>
        LET file == document[1].file
        IN last'.result.ok <=>
             /\ file.header.ok
             /\ Len(C15_WellFormed(file, last'.mapping)) = Len(file.records)
      ]_vars

\* C16: the amount of every parsed row is credit minus debit when both
\* columns are mapped and the value of the amount column otherwise, and its
\* sign is flipped in both cases when invert_amounts is set.
C16_Composition ==
    [][ParseCsvStep /\ last'.result.ok =>
        LET file == document[1].file
            mapping == last'.mapping
        IN \A i \in 1..Len(file.records) :
             LET fields == file.records[i].fields
                 composed == IF mapping.debit_column # None /\ mapping.credit_column # None
                             THEN CsvParseAmount(FieldAt(fields, mapping.credit_column[1]))
                                  - CsvParseAmount(FieldAt(fields, mapping.debit_column[1]))
                             ELSE CsvParseAmount(FieldAt(fields, mapping.amount_column))
             IN last'.result.transactions[i].amount
                    = IF mapping.invert_amounts THEN -composed ELSE composed
      ]_vars

\* What parse_csv does instead: the inversion applies to the amount column
\* only
C16_InvertsAmountColumnOnly ==
    [][ParseCsvStep /\ last'.result.ok =>
        LET file == document[1].file
            mapping == last'.mapping
        IN \A i \in 1..Len(file.records) :
             LET fields == file.records[i].fields
             IN last'.result.transactions[i].amount
                  = IF mapping.debit_column # None /\ mapping.credit_column # None
                    THEN CsvParseAmount(FieldAt(fields, mapping.credit_column[1]))
                         - CsvParseAmount(FieldAt(fields, mapping.debit_column[1]))
                    ELSE IF mapping.invert_amounts
                    THEN -CsvParseAmount(FieldAt(fields, mapping.amount_column))
                    ELSE CsvParseAmount(FieldAt(fields, mapping.amount_column))
      ]_vars


\* A step in which a preview reads a file that exists and succeeds
PreviewStep ==
    /\ tick' # tick
    /\ last'.op \in {"preview_csv", "preview_boa", "preview_pdf"}
    /\ document # None
    /\ last'.result.ok

\* The first n elements of a sequence, all of them where it has fewer
C17_Prefix(seq, n) == SubSeq(seq, 1, IF n < Len(seq) THEN n ELSE Len(seq))

\* The list the full parse of the file returns
C17_FullList ==
    IF document[1].kind = "boa" THEN ParseBoa(document[1].text).transactions
    ELSE ParsePdf(document[1].text).transactions

C17_CutStatement ==
    /\ last.op = "preview_boa"
    /\ last.limit = 2
    /\ last.result.ok
    /\ last.result.total_rows = 3
    /\ Len(last.result.transactions) = 2

\* A document preview cut to two of three transactions
C17_CutDocument ==
    /\ last.op = "preview_pdf"
    /\ last.limit = 2
    /\ last.result.ok
    /\ last.result.total_rows = 3
    /\ Len(last.result.transactions) = 2


-----------------------------------------------------------------------------
(* Claims about failures within a batch and about accounts *)

\* A step that is an import_transactions into an account that exists,
\* successful or not
ImportAttempt ==
    /\ tick' # tick
    /\ last'.op = "import_transactions"
    /\ last'.account_id \in AccountIds
    /\ accounts[last'.account_id].exists

\* C19: an insert that storage rejects does not end the import: the call
\* still returns its counts, and on return the balance of the account is the
\* sum of its live rows, the rows of the batch that were inserted included.
C19_NonFatal ==
    [][ImportAttempt =>
        /\ last'.ok
        /\ accounts'[last'.account_id].current_balance
             = LiveSum(transactions', last'.account_id)
      ]_vars

\* What import_transactions does instead: the first rejected insert ends the
\* call with the error, the rows inserted before it stay and the balance is
\* left as it was
C19_StopsAtFirstFailure ==
    [][ImportAttempt /\ ~last'.ok =>
        /\ accounts' = accounts
        /\ Len(transactions') >= Len(transactions)
        /\ \E k \in 1..Len(last'.batch) :
             /\ IsSome(last'.batch[k].categoryId)
             /\ last'.batch[k].categoryId[1] \notin CategoryIds
             /\ Len(transactions') - Len(transactions) < k
      ]_vars

\* An import that failed after it had inserted a row
C19_RowsWithoutBalance ==
    /\ last.op = "import_transactions"
    /\ ~last.ok
    /\ last.account_id \in AccountIds
    /\ accounts[last.account_id].exists
    /\ accounts[last.account_id].current_balance # LiveSum(transactions, last.account_id)
    /\ \E i \in TxIds(transactions) : transactions[i].account_id = last.account_id


\* C20: every transaction that is not deleted belongs to an account that
\* exists and is not deleted.
C20_LiveRowsInLiveAccounts ==
    \A i \in TxIds(transactions) :
        ~transactions[i].deleted =>
            /\ transactions[i].account_id \in AccountIds
            /\ accounts[transactions[i].account_id].exists
            /\ ~accounts[transactions[i].account_id].deleted

\* What holds instead: every transaction belongs to an account that exists,
\* deleted or not
C20_LiveRowsInKnownAccounts ==
    \A i \in TxIds(transactions) :
        /\ transactions[i].account_id \in AccountIds
        /\ accounts[transactions[i].account_id].exists

\* A transaction created in an account that was deleted before
C20_CreatedInDeletedAccount ==
    /\ last.op = "create_transaction"
    /\ last.ok
    /\ accounts[last.account_id].deleted
    /\ ~transactions[last.id].deleted

\* A transaction imported into an account that was deleted before
C20_ImportedIntoDeletedAccount ==
    /\ last.op = "import_transactions"
    /\ last.ok
    /\ last.imported = 1
    /\ last.account_id \in AccountIds
    /\ accounts[last.account_id].deleted


-----------------------------------------------------------------------------
(* Claims about concurrent commands *)

\* The calls that have taken the mutex for the first time and not returned
C18_Running == { c \in 1..Len(calls) : calls[c].pc \notin {"lock", "done"} }

\* Two calls that have returned, both import_transactions of the one
\* transaction Coffee into the same account, and no other call
C18_TwoImports ==
    /\ Len(calls) = 2
    /\ \A c \in 1..2 : /\ calls[c].op = "import_transactions"
                       /\ calls[c].batch = <<Coffee>>
                       /\ calls[c].pc = "done"

\* Of two concurrent imports of the same transaction, one reports imported =
\* 1 and the other skipped = 1, one row is inserted and the balance holds
\* the amount once
C18_ImportedOnce ==
    C18_TwoImports =>
        /\ \A c \in 1..2 : calls[c].result[1].ok
        /\ \E c \in 1..2 :
             /\ calls[c].result[1].imported = 1 /\ calls[c].result[1].skipped = 0
             /\ calls[3 - c].result[1].imported = 0 /\ calls[3 - c].result[1].skipped = 1
        /\ Len(transactions) = 1
        /\ accounts["a1"].current_balance = Coffee.amount

\* C18: every command takes the mutex before its first read and holds it
\* until it returns, so that at most one command that has started is in
\* flight; and two concurrent imports of the same transaction insert one row.
C18_SingleWriter ==
    /\ \A c \in C18_Running : mutex = Some(c)
    /\ Cardinality(C18_Running) <= 1
    /\ C18_ImportedOnce

\* What holds instead: no table is read or written but by the call that
\* holds the mutex, and every call holds it from its first lock() to its
\* return except create_transaction, which is without it between its drop
\* and the lock() of its read-back
C18_WritesUnderLock ==
    [][/\ (transactions' # transactions \/ accounts' # accounts) => mutex # None
       /\ \A c \in C18_Running :
            mutex # Some(c) => calls[c].op = "create_transaction" /\ calls[c].pc = "relock"
      ]_vars

\* A create_transaction that has dropped its guard while an import runs
C18_CreateUnlocked ==
    \E c, d \in 1..Len(calls) :
        /\ calls[c].op = "create_transaction" /\ calls[c].pc = "relock"
        /\ calls[d].op = "import_transactions" /\ mutex = Some(d)
        /\ calls[d].pc = "insert"

-----------------------------------------------------------------------------
(* Claims about the two passes of the heuristic document parser *)

\* The elements of a set of line numbers, in file order
RECURSIVE C21_Ordered(_)
C21_Ordered(S) ==
    IF S = {} THEN <<>>
    ELSE LET least == CHOOSE i \in S : \A j \in S : i <= j
         IN <<least>> \o C21_Ordered(S \ {least})

\* The category headers of the lines L before line i that a pass takes as
\* such: in the gated pass a line consumed as a section start or a table
\* header is none
C21_HeadersBefore(L, i, gatedPass) ==
    { j \in 1..(i - 1) : /\ L[j] # <<>>
                         /\ IsSome(FactsOf(L[j]).category)
                         /\ (gatedPass => ~C13_Marker(L, j)) }

\* The category in force at line i: that of the last header before it
C21_Context(L, i, gatedPass) ==
    LET headers == C21_HeadersBefore(L, i, gatedPass)
    IN IF headers = {} THEN None
       ELSE FactsOf(L[CHOOSE j \in headers : \A k \in headers : k <= j]).category

\* The transactions of the kept lines, in file order, each with the category
\* in force at its line
C21_Rows(L, kept, gatedPass) ==
    LET order == C21_Ordered(kept)
    IN [k \in 1..Len(order) |->
          [FactsOf(L[order[k]]).tx[1] EXCEPT !.category = C21_Context(L, order[k], gatedPass)]]

\* What the fallback pass alone returns for the lines L
C21_FallbackRows(L) == C21_Rows(L, C13_Parsed(L, C13_FallbackReached(L)), FALSE)

\* C21: when the gated pass keeps fewer than 3 transactions, the result is
\* that of one pass from scratch over all lines in which only the category
\* header and skip filters apply, with nothing of the gated pass left; when
\* it keeps 3 or more, the result is that of the gated pass.
C21_Fallback ==
    [][PdfStep /\ last'.result.ok =>
        LET L == C13_Lines
            gated == C13_GatedKept(L)
            rows == IF Cardinality(gated) >= 3 THEN C21_Rows(L, gated, TRUE)
                    ELSE C21_FallbackRows(L)
        IN IF last'.op = "preview_pdf"
           THEN /\ last'.result.transactions
                     = SubSeq(rows, 1, IF last'.limit < Len(rows) THEN last'.limit ELSE Len(rows))
                /\ last'.result.total_rows = Len(rows)
           ELSE last'.result.transactions = rows
      ]_vars

\* A parse in which the gated pass kept one transaction after a category
\* header of its own and the fallback pass, starting without category,
\* returned more
C21_Witness ==
    /\ last.op = "parse_pdf"
    /\ document # None
    /\ last.result.ok
    /\ LET L == C13_Lines
           gated == C13_GatedKept(L)
       IN /\ Cardinality(gated) \in {1, 2}
          /\ Len(last.result.transactions) > Cardinality(gated)
          /\ last.result.transactions[1].category = None
          /\ \E i \in gated : C21_Context(L, i, TRUE) # None

\* A parse in which the gated pass kept three transactions and no second
\* pass ran, although the fallback pass would have returned more
C21_GatedReturned ==
    /\ last.op = "parse_pdf"
    /\ document # None
    /\ last.result.ok
    /\ Len(last.result.transactions) = 3
    /\ Len(C21_FallbackRows(C13_Lines)) > 3

\* The lines of L whose transactions the result holds, in file order: those
\* the gated pass keeps when they are 3 or more, else those the fallback
\* pass parses
C22_GatedResult(L) == Cardinality(C13_GatedKept(L)) >= 3

C22_Kept(L) ==
    C21_Ordered(IF C22_GatedResult(L) THEN C13_GatedKept(L)
                ELSE C13_Parsed(L, C13_FallbackReached(L)))

\* The line without the colons that end it
RECURSIVE C22_Name(_)
C22_Name(line) ==
    IF line # <<>> /\ line[Len(line)] = ":" THEN C22_Name(SubSeq(line, 1, Len(line) - 1))
    ELSE line

\* The line names a category: it does not start with a date and its name, in
\* lower case, is a category keyword or starts with one and a space
C22_NamesCategory(line) ==
    /\ line # <<>>
    /\ ~FactsOf(line).dated
    /\ \E c \in CategoryKeywords :
         \/ C22_Name(AsciiLower(line)) = c
         \/ StartsWith(C22_Name(AsciiLower(line)), c \o <<" ">>)

\* The line is consumed as a section marker or a table header
C22_IsMarker(line) == line # <<>> /\ (FactsOf(line).section \/ FactsOf(line).header)

\* The lines before line i that are classified as category headers, under
\* the precedence section marker, table header, category header
C22_HeadersBefore(L, i) ==
    { j \in 1..(i - 1) : C22_NamesCategory(L[j]) /\ ~C22_IsMarker(L[j]) }

\* The lines before line i that the pass that produced the result takes as
\* category headers: the fallback pass consumes no markers
C22_PassHeadersBefore(L, i) ==
    { j \in 1..(i - 1) : /\ C22_NamesCategory(L[j])
                         /\ (C22_GatedResult(L) => ~C22_IsMarker(L[j])) }

C22_Last(S) == CHOOSE j \in S : \A k \in S : k <= j

\* C22 as stated: the category of each returned transaction is the text of
\* the most recent preceding line classified as a category header, none if
\* there is none; and each returned transaction comes from a line that, in
\* the precedence section marker, table header, category header, skip,
\* transaction, is classified as a transaction.
C22_TextOfHeaderLine ==
    [][PdfStep /\ last'.op = "parse_pdf" /\ last'.result.ok =>
        LET L == C13_Lines
            kept == C22_Kept(L)
        IN /\ Len(last'.result.transactions) = Len(kept)
           /\ \A k \in 1..Len(kept) :
                LET i == kept[k]
                    headers == C22_HeadersBefore(L, i)
                IN /\ last'.result.transactions[k].raw_line = L[i]
                   /\ last'.result.transactions[k].category
                        = IF headers = {} THEN None ELSE Some(L[C22_Last(headers)])
                   /\ ~C22_IsMarker(L[i])
                   /\ ~C22_NamesCategory(L[i])
                   /\ ~FactsOf(L[i]).skip
                   /\ FactsOf(L[i]).dated
      ]_vars

\* C22, amended: the category of each returned transaction is the name (the
\* trimmed text without the colons that end it) of the most recent preceding
\* line that the pass took as a category header, none if there is none; a
\* category header never yields a transaction and a date-led line is never a
\* category header; the gated pass classifies in the precedence section
\* marker, table header, category header, skip, transaction, and the
\* fallback pass in the precedence category header, skip, transaction, so
\* that a date-led section marker yields a transaction there.
C22_CategoryContext ==
    [][PdfStep /\ last'.op = "parse_pdf" /\ last'.result.ok =>
        LET L == C13_Lines
            kept == C22_Kept(L)
        IN /\ Len(last'.result.transactions) = Len(kept)
           /\ \A k \in 1..Len(kept) :
                LET i == kept[k]
                    headers == C22_PassHeadersBefore(L, i)
                IN /\ last'.result.transactions[k].raw_line = L[i]
                   /\ last'.result.transactions[k].category
                        = IF headers = {} THEN None
                          ELSE Some(C22_Name(L[C22_Last(headers)]))
                   /\ (C22_GatedResult(L) => ~C22_IsMarker(L[i]))
                   /\ ~C22_NamesCategory(L[i])
                   /\ ~FactsOf(L[i]).skip
                   /\ FactsOf(L[i]).dated
           /\ \A i \in 1..Len(L) :
                /\ C22_NamesCategory(L[i]) <=> (L[i] # <<>> /\ IsSome(FactsOf(L[i]).category))
                /\ C22_NamesCategory(L[i]) => FactsOf(L[i]).skip
      ]_vars

\* A parse of a text with two category headers before a transaction, the
\* later one with a colon: the transaction carries the later header's name
C22_Witness ==
    /\ last.op = "parse_pdf"
    /\ document # None
    /\ last.result.ok
    /\ LET L == C13_Lines
       IN \E i \in 1..Len(L), j \in 1..Len(L), k \in 1..Len(L) :
            /\ i < j /\ j < k
            /\ C22_NamesCategory(L[i]) /\ C22_NamesCategory(L[j])
            /\ L[i] # L[j]
            /\ L[j][Len(L[j])] = ":"
            /\ \A n \in (j + 1)..(k - 1) : ~C22_NamesCategory(L[n])
            /\ \E r \in 1..Len(last.result.transactions) :
                 /\ last.result.transactions[r].raw_line = L[k]
                 /\ last.result.transactions[r].category = Some(C22_Name(L[j]))

\* A parse by the fallback pass that returns a date-led section marker as a
\* transaction
C22_MarkerParsed ==
    /\ last.op = "parse_pdf"
    /\ document # None
    /\ last.result.ok
    /\ ~C22_GatedResult(C13_Lines)
    /\ \E r \in 1..Len(last.result.transactions) :
         C22_IsMarker(last.result.transactions[r].raw_line)

-----------------------------------------------------------------------------
(* Claims about the bank statement parser *)

\* A step of parse_boa on a file that is there
ParseBoaStep ==
    /\ tick' # tick
    /\ last'.op = "parse_boa"
    /\ document # None

\* The lines of the statement
C23_Lines == Lines(document[1].text, 1)

\* The line is the header of the transaction table
C23_IsTableHeader(line) ==
    /\ StartsWith(Trim(line), <<"D", "a", "t", "e">>)
    /\ Contains(line, <<"D", "e", "s", "c", "r", "i", "p", "t", "i", "o", "n">>)
    /\ Contains(line, <<"A", "m", "o", "u", "n", "t">>)

\* The lines after the first table header
C23_AfterHeader(L) == { i \in 1..Len(L) : \E h \in 1..(i - 1) : C23_IsTableHeader(L[h]) }

\* The words of a line: what whitespace separates
RECURSIVE C23_Words(_)
C23_Words(line) ==
    IF line = <<>> THEN <<>>
    ELSE IF line[1] \in Whitespace THEN C23_Words(Tail(line))
    ELSE LET spaces == { i \in 1..Len(line) : line[i] \in Whitespace }
             end == IF spaces = {} THEN Len(line) + 1
                    ELSE CHOOSE i \in spaces : \A j \in spaces : i <= j
         IN <<SubSeq(line, 1, end - 1)>> \o C23_Words(SubSeq(line, end, Len(line)))

\* The date of the leading field of the line, read as MM/DD/YYYY
C23_LeadingDate(line) ==
    IF C23_Words(line) = <<>> THEN None ELSE BoaParseDate(C23_Words(line)[1])

\* The date is one of the calendar
C23_ValidDate(d) ==
    /\ d # None
    /\ d[1][2] \in 1..12
    /\ d[1][3] \in 1..DaysInMonth(d[1][1], d[1][2])

\* The amounts of the numeric words that end the line
C23_TrailingAmounts(line) ==
    LET words == C23_Words(line)
    IN { BoaParseAmount(words[k])[1] :
           k \in { k \in 2..Len(words) :
                     \A j \in k..Len(words) : BoaParseAmount(words[j]) # None } }

\* The row that repeats the beginning balance in the table
C23_IsOpening(line) ==
    Contains(line, <<"B", "e", "g", "i", "n", "n", "i", "n", "g", " ",
                     "b", "a", "l", "a", "n", "c", "e">>)

\* C23: the transactions parse_boa returns are those of the lines after the
\* table header that yield a valid calendar date from their leading field
\* and an amount from a numeric word at their end, the beginning balance row
\* apart; every other line is skipped, and the call does not fail.
C23_BestEffort ==
    [][ParseBoaStep =>
        /\ last'.result.ok
        /\ LET L == C23_Lines
               rows == C21_Ordered({ i \in C23_AfterHeader(L) :
                                       /\ C23_ValidDate(C23_LeadingDate(L[i]))
                                       /\ C23_TrailingAmounts(L[i]) # {}
                                       /\ ~C23_IsOpening(L[i]) })
           IN /\ Len(last'.result.transactions) = Len(rows)
              /\ \A k \in 1..Len(rows) :
                   /\ Some(last'.result.transactions[k].date) = C23_LeadingDate(L[rows[k]])
                   /\ last'.result.transactions[k].amount \in C23_TrailingAmounts(L[rows[k]])
      ]_vars

\* What parse_boa does instead: every line of MinBoaLineLen bytes or more
\* after the table header whose leading field is three numbers between
\* slashes yields a transaction, the beginning balance row apart; the date
\* is not validated, and the amount is a number found scanning the digits of
\* the line from its end, those of the date included
C23_DateShapedLines ==
    [][ParseBoaStep =>
        /\ last'.result.ok
        /\ LET L == C23_Lines
               rows == C21_Ordered({ i \in C23_AfterHeader(L) :
                                       /\ Len(L[i]) >= 15
                                       /\ C23_LeadingDate(L[i]) # None
                                       /\ ~C23_IsOpening(L[i]) })
           IN /\ Len(last'.result.transactions) = Len(rows)
              /\ \A k \in 1..Len(rows) :
                   LET d == C23_LeadingDate(L[rows[k]])[1]
                   IN /\ last'.result.transactions[k].date = d
                      /\ last'.result.transactions[k].amount
                           \in C23_TrailingAmounts(L[rows[k]])
                               \cup { 100 * d[1], 100 * d[2], 100 * d[3] }
      ]_vars

\* A parse that returns a transaction dated 13/45/2025 from a line without
\* amount
C23_InvalidDate ==
    /\ last.op = "parse_boa"
    /\ document # None
    /\ last.result.ok
    /\ \E k \in 1..Len(last.result.transactions) :
         /\ last.result.transactions[k].date = <<2025, 13, 45>>
         /\ last.result.transactions[k].amount = 4500

\* A parse that returns the year of the date as the amount of a line with
\* one amount at its end
C23_YearAsAmount ==
    /\ last.op = "parse_boa"
    /\ document # None
    /\ last.result.ok
    /\ \E k \in 1..Len(last.result.transactions) :
         /\ last.result.transactions[k].amount = 202500
         /\ last.result.transactions[k].running_balance = Some(-10000)

\* The two balances of the summary lines are reported beside the list, and
\* the beginning balance row is not in it
C23_BalancesApart ==
    [][/\ tick' # tick
       /\ last'.op = "preview_boa"
       /\ document # None
       => /\ last'.result.ok
          /\ \A k \in 1..Len(last'.result.transactions) :
               ~C23_IsOpening(last'.result.transactions[k].description)
          /\ LET L == C23_Lines
                 Summary(prefix) ==
                     { i \in 1..Len(L) : /\ StartsWith(Trim(L[i]), prefix)
                                         /\ C23_TrailingAmounts(L[i]) # {} }
                 Reported(prefix) ==
                     IF Summary(prefix) = {} THEN None
                     ELSE LET words == C23_Words(L[C22_Last(Summary(prefix))])
                          IN BoaParseAmount(words[Len(words)])
             IN /\ last'.result.beginning_balance = Reported(BeginningPrefix)
                /\ last'.result.ending_balance = Reported(EndingPrefix)
      ]_vars

-----------------------------------------------------------------------------
(* Claims about the grouping of the recurring series detector *)

\* floor(|amount| / 500) * 500
C24_Bucket(amount) == ((IF amount < 0 THEN -amount ELSE amount) \div 500) * 500

\* The members of the s-th detected series
C24_Members(D, s) == { D[s].transactions[k] : k \in 1..Len(D[s].transactions) }

\* The members of every series are 3 or more rows of the ledger, live, no
\* transfer, with a payee that is not empty, of one normalized payee, one
\* account and one bucket, and no row is in two series
C24_WellGrouped(D) ==
    /\ \A s \in 1..Len(D) :
         /\ Cardinality(C24_Members(D, s)) >= 3
         /\ Cardinality(C24_Members(D, s)) = Len(D[s].transactions)
         /\ \A i \in C24_Members(D, s) :
              /\ i \in 1..Len(transactions)
              /\ ~transactions[i].deleted
              /\ transactions[i].transfer_id = None
              /\ transactions[i].payee # None
              /\ transactions[i].payee[1] # <<>>
         /\ \A i, j \in C24_Members(D, s) :
              /\ NormalizePayee(transactions[i].payee[1])
                   = NormalizePayee(transactions[j].payee[1])
              /\ transactions[i].account_id = transactions[j].account_id
              /\ C24_Bucket(transactions[i].amount) = C24_Bucket(transactions[j].amount)
    /\ \A s, t \in 1..Len(D) : s # t => C24_Members(D, s) \cap C24_Members(D, t) = {}

\* C24: the members of a detected series have one normalized payee, one
\* account and one amount bucket; a series has at least 3 members; every
\* member is a live row that is no transfer and has a payee whose normalized
\* form has at least 3 characters; no row is a member of two series.
C24_Grouping ==
    [][RecurringStep =>
        /\ C24_WellGrouped(last'.detected)
        /\ \A s \in 1..Len(last'.detected) : \A i \in C24_Members(last'.detected, s) :
             Len(NormalizePayee(transactions[i].payee[1])) >= 3
      ]_vars

\* What the detector does instead: the normalized payee of a member has at
\* least 3 bytes
C24_GroupingInBytes ==
    [][RecurringStep =>
        /\ C24_WellGrouped(last'.detected)
        /\ \A s \in 1..Len(last'.detected) : \A i \in C24_Members(last'.detected, s) :
             ByteLen(NormalizePayee(transactions[i].payee[1])) >= 3
      ]_vars

\* A detection that returned a series whose normalized payee has two
\* characters, beside a series of another payee
C24_ShortPayeeSeries ==
    /\ last.op = "detect_recurring_transactions"
    /\ last.ok
    /\ Len(last.detected) = 2
    /\ \E s \in 1..2 : Len(last.detected[s].normalized_payee) = 2

-----------------------------------------------------------------------------
(* Claims about the balance of an account *)

\* The balance of every account is the sum of the amounts of its live rows
C25_BalancesMatch(accts, txs) ==
    \A a \in AccountIds : accts[a].exists => accts[a].current_balance = LiveSum(txs, a)

\* C25: for an account created with current_balance 0, after any sequence of
\* create_transaction, update_transaction, delete_transactions (also of an id
\* deleted already, also an update of the amount of a deleted transaction)
\* and import_transactions, current_balance is the sum of the amounts of the
\* account's non-deleted transactions.
C25_BalanceInvariant == C25_BalancesMatch(accounts, transactions)

\* A command of the claim that neither names a deleted row (delete, update)
\* nor is an import that returned an error
C25_LiveStep ==
    /\ tick' # tick
    /\ last'.op = "delete_transactions" => redeleted' = redeleted
    /\ last'.op = "update_transaction" /\ last'.found => ~transactions[last'.id].deleted
    /\ last'.op = "import_transactions" => last'.ok

\* What the commands do instead: a command that names no deleted row and is
\* no failed import keeps the balances equal to the sums of the live rows
C25_LiveStepsKeepBalance ==
    [][C25_BalancesMatch(accounts, transactions) /\ C25_LiveStep
         => C25_BalancesMatch(accounts', transactions')]_vars

\* A second delete_transactions of one id has subtracted its amount twice
C25_DeletedTwice ==
    /\ last.op = "delete_transactions" /\ last.ok
    /\ redeleted = 1
    /\ \E a \in AccountIds : /\ accounts[a].exists
                             /\ LiveSum(transactions, a) = 0
                             /\ accounts[a].current_balance = -5

\* The update of the amount of a deleted transaction has moved the balance
C25_UpdatedDeleted ==
    /\ last.op = "update_transaction" /\ last.found /\ ~last.ok
    /\ last.data.amount = Some(9)
    /\ redeleted = 0
    /\ \E a \in AccountIds : /\ accounts[a].exists
                             /\ LiveSum(transactions, a) = 0
                             /\ accounts[a].current_balance = 4

\* A live row was updated and deleted, and the balances are the sums
C25_LiveUpdated ==
    /\ last.op = "delete_transactions" /\ last.ok
    /\ redeleted = 0
    /\ \E i \in TxIds(transactions) : transactions[i].amount = 9 /\ transactions[i].deleted
    /\ \E i \in TxIds(transactions) : ~transactions[i].deleted
    /\ C25_BalancesMatch(accounts, transactions)


\* An import that failed at its second element has left its first row
\* outside the balance
C25_FailedImport ==
    /\ last.op = "import_transactions" /\ ~last.ok
    /\ Len(transactions) = 1 /\ ~transactions[1].deleted
    /\ accounts[transactions[1].account_id].current_balance = 0
    /\ transactions[1].amount = -3

-----------------------------------------------------------------------------
(* Claims about the well-formedness of transfer links *)

\* The transactions that carry the transfer id of transaction i
C26_Carriers(i) ==
    { j \in TxIds(transactions) : transactions[j].transfer_id = transactions[i].transfer_id }

\* C26: after any sequence of link_transfer and unlink_transfer calls (a
\* transaction linked to itself, two transactions of one account linked, a
\* linked transaction linked to a third one), every non-null transfer_id is
\* carried by exactly two transactions of different accounts, each one's
\* transfer_account_id is the other's account, and transfer_id is null iff
\* transfer_account_id is null.
C26_WellFormedLinks ==
    \A i \in TxIds(transactions) :
       /\ transactions[i].transfer_id = None <=> transactions[i].transfer_account_id = None
       /\ IsSome(transactions[i].transfer_id) =>
            /\ Cardinality(C26_Carriers(i)) = 2
            /\ \A j \in C26_Carriers(i) \ {i} :
                 /\ transactions[j].account_id # transactions[i].account_id
                 /\ transactions[i].transfer_account_id = Some(transactions[j].account_id)

\* What the two commands keep instead: the two fields are null together, a
\* transfer id has at most two carriers, and the transfer account of a
\* carrier is the account of a transaction of the ledger
C26_NullTogether ==
    \A i \in TxIds(transactions) :
       /\ transactions[i].transfer_id = None <=> transactions[i].transfer_account_id = None
       /\ IsSome(transactions[i].transfer_id) =>
            /\ Cardinality(C26_Carriers(i)) \in {1, 2}
            /\ \E j \in TxIds(transactions) :
                 transactions[i].transfer_account_id = Some(transactions[j].account_id)

\* link_transfer(a, a) has left a transfer id with one carrier, whose
\* transfer account is its own
C26_SelfLinked ==
    /\ last.op = "link_transfer" /\ last.ok /\ last.a = last.b
    /\ C26_Carriers(last.a) = {last.a}
    /\ transactions[last.a].transfer_account_id = Some(transactions[last.a].account_id)

\* link_transfer of two transactions of one account
C26_SameAccountLinked ==
    /\ last.op = "link_transfer" /\ last.ok /\ last.a # last.b
    /\ transactions[last.a].account_id = transactions[last.b].account_id
    /\ C26_Carriers(last.a) = {last.a, last.b}

\* link_transfer of a linked transaction to a third one has left its
\* former partner the only carrier of the former transfer id
C26_FormerPartner ==
    /\ last.op = "link_transfer" /\ last.ok /\ last.a # last.b
    /\ transactions[last.a].account_id # transactions[last.b].account_id
    /\ \E i \in TxIds(transactions) \ {last.a, last.b} :
         /\ IsSome(transactions[i].transfer_id)
         /\ C26_Carriers(i) = {i}
         /\ transactions[i].transfer_account_id = Some(transactions[last.b].account_id)

\* A pair of two accounts, linked and well formed
C26_PairLinked ==
    /\ last.op = "link_transfer" /\ last.ok /\ last.a # last.b
    /\ transactions[last.a].account_id # transactions[last.b].account_id
    /\ C26_WellFormedLinks

-----------------------------------------------------------------------------
(* Claims about the accounting of an import *)

\* C27: for every import_transactions call that returns successfully,
\* imported + skipped is the number of transactions of the batch, exactly
\* `imported` new rows exist afterwards, each of the target account and
\* carrying the returned batch id, no row that existed before has its date,
\* amount, payee or account changed, and categorized is at most imported.
C27_ImportAccounting ==
    [][ImportStep =>
        /\ last'.imported + last'.skipped = Len(last'.batch)
        /\ Len(transactions') = Len(transactions) + last'.imported
        /\ \A i \in (Len(transactions) + 1)..Len(transactions') :
             /\ transactions'[i].account_id = last'.account_id
             /\ transactions'[i].import_batch_id = Some(last'.batch_id)
        /\ \A i \in TxIds(transactions) :
             /\ transactions'[i].date = transactions[i].date
             /\ transactions'[i].amount = transactions[i].amount
             /\ transactions'[i].payee = transactions[i].payee
             /\ transactions'[i].account_id = transactions[i].account_id
        /\ last'.categorized <= last'.imported
      ]_vars

\* C27 witness: an import into a ledger that had a row has skipped one
\* element of its batch, inserted the other and categorized it
C27_Witness ==
    /\ last.op = "import_transactions" /\ last.ok
    /\ Len(last.batch) = 2
    /\ last.imported = 1 /\ last.skipped = 1 /\ last.categorized = 1
    /\ Len(transactions) = 2
    /\ transactions[2].import_batch_id = Some(last.batch_id)
    /\ transactions[1].import_batch_id # Some(last.batch_id)

-----------------------------------------------------------------------------
(* Claims about the locked database *)

\* The ledger commands
C28_LedgerCommands ==
    { "import_transactions", "apply_category_rules", "detect_recurring_transactions",
      "detect_transfers", "link_transfer", "unlink_transfer", "create_transaction",
      "update_transaction", "delete_transactions", "create_account", "delete_account" }

\* Whether the command returned the NotUnlocked error
C28_NotUnlocked(l) == "error" \in DOMAIN l /\ l.error = "NotUnlocked"

C28_AfterWrongPassword ==
    /\ last.op = "create_account" /\ C28_NotUnlocked(last)
    /\ last.after = <<"unlock_database", FALSE>>
    /\ ~database.conn
    /\ database.key = Some(Password)

\* A ledger command has run on the database made after delete_database
C28_RunsAgain ==
    /\ last.op = "create_transaction" /\ last.ok
    /\ database.conn
    /\ database.key = Some("bad")

-----------------------------------------------------------------------------
(* Claims about what the fallback pass keeps *)

\* The transactions the gated pass and the fallback pass hold after the
\* first n lines of the document
C29_Gated(n) == GatedPass(PassStart, SubSeq(Lines(document[1].text, 1), 1, n)).transactions

C29_Fallback(n) == FallbackPass(PassStart, SubSeq(Lines(document[1].text, 1), 1, n)).transactions

\* The same date, description and amount
C29_SameRow(x, y) == x.date = y.date /\ x.description = y.description /\ x.amount = y.amount

\* Line i is kept by the gated pass
C29_GatedKeeps(i) == Len(C29_Gated(i)) > Len(C29_Gated(i - 1))

\* No line before line i is a section marker or a table header to the gated
\* pass
C29_BeforeMarkers(i) == \A j \in 1..(i - 1) : ~C13_Marker(C13_Lines, j)

\* C29: each line the gated pass keeps as a transaction is kept, with the
\* same date, description and amount, by the fallback pass over the same
\* text, so the fallback result has at least as many transactions as the
\* gated result; in the gated pass a parsed date-led line before every
\* section marker and header is kept only if no transaction was kept before.
C29_FallbackKeepsGated ==
    [][PdfStep /\ last'.result.ok =>
        /\ \A i \in 1..Len(C13_Lines) :
             C29_GatedKeeps(i) =>
               /\ Len(C29_Fallback(i)) = Len(C29_Fallback(i - 1)) + 1
               /\ C29_SameRow(C29_Gated(i)[Len(C29_Gated(i))],
                              C29_Fallback(i)[Len(C29_Fallback(i))])
               /\ C29_BeforeMarkers(i) => C29_Gated(i - 1) = <<>>
        /\ Len(C29_Fallback(Len(C13_Lines))) >= Len(C29_Gated(Len(C13_Lines)))
      ]_vars

\* C29 witness: a parse in which the gated pass kept the first of two parsed
\* lines that precede every marker and not the second, and the fallback pass
\* returned both
C29_Witness ==
    /\ last.op = "parse_pdf"
    /\ document # None
    /\ last.result.ok
    /\ LET n == Len(C13_Lines)
       IN /\ Len(C29_Gated(n)) \in {1, 2}
          /\ last.result.transactions = C29_Fallback(n)
          /\ Len(C29_Fallback(n)) > Len(C29_Gated(n))
          /\ \E i \in 1..n : /\ C29_GatedKeeps(i)
                             /\ C29_BeforeMarkers(i)
          /\ \E i \in 1..n : /\ ~C29_GatedKeeps(i)
                             /\ C29_BeforeMarkers(i)
                             /\ Len(C29_Fallback(i)) > Len(C29_Fallback(i - 1))

-----------------------------------------------------------------------------
(* Claims about the read-back of create_transaction and update_transaction *)

\* The calls of create_transaction and update_transaction that have written
\* a live row
C30_Wrote == { c \in 1..Len(calls) :
                 /\ calls[c].op \in {"create_transaction", "update_transaction"}
                 /\ calls[c].inserted # <<>> }

\* C30: the insert of create_transaction, its balance adjustment and the
\* read-back of the created record happen with no other command running in
\* between, so a create_transaction whose insert succeeded returns the
\* record it inserted, never NotFound, whatever is invoked concurrently; the
\* same holds for the read-back of update_transaction.
C30_AtomicReadBack ==
    \A c \in C30_Wrote :
       /\ calls[c].pc # "done" => mutex \in {None, Some(c)}
       /\ calls[c].pc = "done" => /\ calls[c].result[1].ok
                                  /\ calls[c].result[1].id = calls[c].inserted[1]

\* What the two commands do instead: the read-back runs under a second
\* lock() and returns the row as it is then, NotFound where it is deleted
C30_ReadsWhatIsThere ==
    [][\A c \in 1..Len(calls) :
          (c \in C30_Wrote /\ calls[c].pc = "read" /\ calls'[c].pc = "done") =>
             IF transactions[calls[c].inserted[1]].deleted
             THEN ~calls'[c].result[1].ok
             ELSE /\ calls'[c].result[1].ok
                  /\ calls'[c].result[1].record = transactions[calls[c].inserted[1]]
      ]_vars

\* A create_transaction whose insert succeeded has returned NotFound: the
\* row was deleted between its drop and its read-back
C30_CreateNotFound ==
    \E c, d \in 1..Len(calls) :
        /\ calls[c].op = "create_transaction" /\ calls[c].pc = "done"
        /\ calls[c].inserted = <<2>>
        /\ ~calls[c].result[1].ok
        /\ calls[d].op = "delete_transactions" /\ calls[d].pc = "done"
        /\ calls[d].result[1].ok
        /\ accounts["a1"].current_balance = 5

\* An update_transaction of a live row has returned NotFound
C30_UpdateNotFound ==
    \E c, d \in 1..Len(calls) :
        /\ calls[c].op = "update_transaction" /\ calls[c].pc = "done"
        /\ calls[c].inserted = <<1>>
        /\ ~calls[c].result[1].ok
        /\ calls[d].op = "delete_transactions" /\ calls[d].pc = "done"
        /\ transactions[1].amount = 9 /\ transactions[1].deleted
        /\ accounts["a1"].current_balance = 0

\* A create_transaction has returned the record it inserted
C30_CreateReturned ==
    \E c \in 1..Len(calls) :
        /\ calls[c].op = "create_transaction" /\ calls[c].pc = "done"
        /\ calls[c].result[1].ok
        /\ calls[c].result[1].record.amount = Tea.amount

====
